---- MODULE Spec2Model ----
(***************************************************************************)
(* Model of the slack-messages indexer: the ingestion pipeline (buildIndex *)
(* and updateIndex of src/src/index.ts), the persisted artifacts it writes *)
(* (index.db, fuzzy.json, stats.json, users.json) and the workspace        *)
(* configuration (config.json).                                            *)
(*                                                                         *)
(* A Slack ts ("1234567890.123456") is modelled as a natural number of     *)
(* ticks; TicksPerSec ticks make one second, so slackTsToUnix is integer   *)
(* division.  Slack ts strings have a fixed width, so the string           *)
(* comparison of the code is the numeric comparison of the model.  The     *)
(* value 0 stands for undefined / null / a missing cursor entry.  The     *)
(* code takes a history in the order the remote hands it over and never    *)
(* sorts it, so each sync sees it either oldest first or newest first.     *)
(* The BATCH_SIZE / MINI_BATCH slicing and the messages_fts table are left *)
(* out: an insert step writes all its rows, a fuzzy step all its documents.*)
(***************************************************************************)
EXTENDS Integers, Sequences, FiniteSets, TLC

\* ------------------------------------------------------------------ bounds
MaxMsgs == 3
MaxClock == 3
MaxInterrupts == 1
MaxFailedSyncs == 1
TicksPerSec == 2

VARIABLES
    config,    \* config.json: the sequence of workspaces
    remote,    \* the messages the Slack workspace holds, in posting order
    users,     \* users.json
    db,        \* index.db: the messages table and its AUTOINCREMENT sequence
    fuzzy,     \* fuzzy.json: the MiniSearch snapshot
    stats,     \* stats.json: <<>> when absent, else <<IndexStats>>
    interrupts,\* how many syncs were interrupted
    failedSyncs, \* how many syncs met a fetch error
    pc,        \* the position of the sync in flight
    run,       \* the local variables of the sync in flight
    last       \* how the most recent sync ended, until the remote changes

vars == <<config, remote, users, db, fuzzy, stats, interrupts, failedSyncs, pc, run, last>>
disk == <<users, db, fuzzy, stats>>

\* ------------------------------------------------------- the remote workspace
Workspace == [id |-> "T1", name |-> "team", token |-> "xoxp-1"]
AuthInfo == [userId |-> "U1", teamId |-> "T1", teamName |-> "team"]

\* listUsers() after its own normalisation
RemoteUsers ==
    { [id |-> "U1", name |-> "alice", realName |-> "Alice A", displayName |-> "ali"],
      [id |-> "U2", name |-> "bob", realName |-> "Bob B", displayName |-> ""] }

\* listConversations(): a channel and a direct message
Conversations ==
    << [id |-> "C1", name |-> "general", isIm |-> FALSE, userId |-> ""],
       [id |-> "D2", name |-> "D2", isIm |-> TRUE, userId |-> "U2"] >>

ConvIds == { Conversations[k].id : k \in 1..Len(Conversations) }

AuthorOf(i) == IF i % 2 = 1 THEN "U2" ELSE "U1"

NextTs == TicksPerSec + Len(remote)

\* what the Slack API reports for a stored message
replyCountOf(m) == Cardinality({ j \in 1..Len(remote) : remote[j].parent = m.ts })
threadTsOf(m) ==
    IF m.parent # 0 THEN m.parent
    ELSE IF replyCountOf(m) > 0 THEN m.ts ELSE 0

\* ------------------------------------------------------------------ types.ts
slackTsToUnix(ts) == ts \div TicksPerSec

\* ------------------------------------------------------------------ helpers
RECURSIVE SortByTs(_)
SortByTs(S) ==
    IF S = {} THEN <<>>
    ELSE LET m == CHOOSE x \in S : \A y \in S : x.ts <= y.ts
         IN <<m>> \o SortByTs(S \ {m})

Range(s) == { s[k] : k \in 1..Len(s) }

Reverse(s) == [k \in 1..Len(s) |-> s[Len(s) + 1 - k]]

\* The order in which the remote hands over a history: the code takes the
\* messages as they come.
PageOrder(newestFirst, messages) == IF newestFirst THEN Reverse(messages) ELSE messages

\* --------------------------------------------------------------- SlackApi
\* The text of a remote message is a number: a positive one stands for a text
\* with something in it, 0 for the empty string and -1 for a text of blanks only.
EmptyText == 0
BlankText == 0 - 1

\* !msg.text || !msg.text.trim().  The texts that are searched are written out
\* as sequences of characters and are never one of the two numbers; ToString
\* lets the test be asked of either kind.
NoText(text) == ToString(text) \in {ToString(EmptyText), ToString(BlankText)}

getConversationHistory(channelId, oldest) ==
    LET hits == { [ts |-> remote[i].ts, user |-> remote[i].user, text |-> remote[i].text,
                   channelId |-> channelId, threadTs |-> threadTsOf(remote[i]),
                   replyCount |-> replyCountOf(remote[i])] :
                  i \in { j \in 1..Len(remote) :
                            /\ remote[j].channel = channelId
                            /\ remote[j].parent = 0
                            /\ ~NoText(remote[j].text)
                            /\ remote[j].ts > oldest } }
    IN SortByTs(hits)

getThreadRepliesNone(channelId, threadTs) == <<>>

getThreadReplies(channelId, threadTs) ==
    SortByTs({ [ts |-> remote[i].ts, user |-> remote[i].user, text |-> remote[i].text,
                channelId |-> channelId, threadTs |-> threadTs, replyCount |-> 0] :
               i \in { j \in 1..Len(remote) :
                         /\ remote[j].channel = channelId
                         /\ remote[j].parent = threadTs
                         /\ remote[j].ts # threadTs } })

\* -------------------------------------------------------------- name resolution
FirstNonEmpty(a, b, c, d) ==
    IF a # "" THEN a ELSE IF b # "" THEN b ELSE IF c # "" THEN c ELSE d

\* A variant of resolveUserName that prefers the real name to the display name.
resolveUserNameRealFirst(userMap, userId) ==
    IF \E u \in userMap : u.id = userId
    THEN LET u == CHOOSE x \in userMap : x.id = userId
         IN FirstNonEmpty(u.realName, u.displayName, u.name, userId)
    ELSE userId

resolveUserName(userMap, userId) ==
    IF \E u \in userMap : u.id = userId
    THEN LET u == CHOOSE x \in userMap : x.id = userId
         IN FirstNonEmpty(u.displayName, u.realName, u.name, userId)
    ELSE userId

resolveConversationName(userMap, conv) ==
    IF conv.isIm /\ conv.userId # "" THEN resolveUserName(userMap, conv.userId)
    ELSE conv.name

loadUsersCache == IF users.exists THEN users.list ELSE {}

RawSlackMessage(msg, channelName) ==
    [ts |-> msg.ts, user |-> msg.user, text |-> msg.text, channelId |-> msg.channelId,
     channelName |-> channelName, threadTs |-> msg.threadTs]

RawAll(msgs, channelName) == [k \in 1..Len(msgs) |-> RawSlackMessage(msgs[k], channelName)]

\* ------------------------------------------------------------ fetch failures
\* A fetch of one conversation either succeeds, or conversations.history throws,
\* or conversations.replies throws for one parent that has replies.
NoFailure == [kind |-> "none", ts |-> 0]
FailureChoices(history) ==
    { NoFailure, [kind |-> "history", ts |-> 0] }
      \cup { [kind |-> "replies", ts |-> m.ts] : m \in { x \in Range(history) : x.replyCount > 0 } }

\* ------------------------------------------------------------------ the store
NoRows == {}

InsertOrReplace(table, row) ==
    [rows |-> { r \in table.rows : r.ts # row.ts } \cup {[row EXCEPT !.id = table.seq + 1]},
     seq |-> table.seq + 1]

InsertOrIgnore(table, row) ==
    IF \E r \in table.rows : r.ts = row.ts
    THEN table
    ELSE [rows |-> table.rows \cup {[row EXCEPT !.id = table.seq + 1]}, seq |-> table.seq + 1]

MessageRow(msg, userMap) ==
    [id |-> 0, ts |-> msg.ts, text |-> msg.text, sender |-> resolveUserName(userMap, msg.user),
     chat_name |-> msg.channelName, chat_id |-> msg.channelId, date |-> slackTsToUnix(msg.ts),
     is_from_me |-> IF msg.user = AuthInfo.userId THEN 1 ELSE 0, thread_ts |-> msg.threadTs]

RECURSIVE insertBatch(_, _, _)
insertBatch(table, batch, userMap) ==
    IF batch = <<>> THEN table
    ELSE insertBatch(InsertOrIgnore(table, MessageRow(Head(batch), userMap)), Tail(batch), userMap)

IndexedMessage(row) ==
    [id |-> row.id, text |-> row.text, sender |-> row.sender, chatName |-> row.chat_name,
     chatId |-> row.chat_id, date |-> row.date, isFromMe |-> (row.is_from_me = 1),
     threadTs |-> row.thread_ts]


\* A variant of addAll that keeps the added documents only.
addAllOnly(docs, documents) == documents

addAll(docs, documents) == docs \cup documents

DuplicateId(docs, documents) == \E d \in docs, n \in documents : d.id = n.id

\* ------------------------------------------------------------------ stats
NoCursors == [c \in ConvIds |-> 0]

CursorKeys(cursors) == { c \in ConvIds : cursors[c] # 0 }

\* new Date(): later than every instant recorded so far
WallClock == IF stats = <<>> THEN 1 ELSE stats[1].indexedAt + 1

DateOf(unix) == [wall |-> FALSE, t |-> unix]
Now == [wall |-> TRUE, t |-> WallClock]

HasStats == stats # <<>>

HasCursors == stats # <<>> /\ CursorKeys(stats[1].conversationCursors) # {}

\* ------------------------------------------------- bookkeeping of the syncs
Idle == [op |-> "none", msgs |-> <<>>, cursors |-> NoCursors, failed |-> FALSE]

NoRun == [op |-> "none", result |-> "none", failed |-> FALSE, total |-> 0, nRows |-> 0, nDocs |-> 0]

\* The outcome of a sync: what it returned or threw, whether a fetch error was
\* caught on the way, and the total of its `done` progress event.  The counts of
\* both indexes are kept for a full sync that ended well.
Ended(op, result, failed, table, snapshot) ==
    [op |-> op, result |-> result, failed |-> (result = "done" /\ failed),
     total |-> IF result = "done" THEN Len(run.msgs) ELSE 0,
     nRows |-> IF op = "build" /\ result = "done" THEN Cardinality(table.rows) ELSE 0,
     nDocs |-> IF op = "build" /\ result = "done" THEN Cardinality(snapshot.docs) ELSE 0]

FetchBudget(failed) ==
    /\ failed => failedSyncs < MaxFailedSyncs
    /\ failedSyncs' = IF failed THEN failedSyncs + 1 ELSE failedSyncs

\* --------------------------------------------------------------- buildIndex
BuildHistorySinceCursor(conv) ==
    getConversationHistory(conv.id,
        IF stats = <<>> THEN 0 ELSE stats[1].conversationCursors[conv.id])

BuildHistory(conv) == getConversationHistory(conv.id, 0)

RECURSIVE BuildConvLoop(_, _, _, _)
BuildConvLoop(messages, failure, channelName, allMessages) ==
    IF messages = <<>> THEN allMessages
    ELSE LET msg == Head(messages)
             pushed == Append(allMessages, RawSlackMessage(msg, channelName))
         IN IF msg.replyCount > 0
            THEN IF failure.kind = "replies" /\ failure.ts = msg.ts
                 THEN pushed
                 ELSE BuildConvLoop(Tail(messages), failure, channelName,
                          pushed \o RawAll(getThreadReplies(msg.channelId, msg.ts), channelName))
            ELSE BuildConvLoop(Tail(messages), failure, channelName, pushed)

RECURSIVE BuildFetchAll(_, _, _, _, _)
BuildFetchAll(i, failures, newestFirst, userMap, allMessages) ==
    IF i > Len(Conversations) THEN allMessages
    ELSE LET conv == Conversations[i]
             channelName == resolveConversationName(userMap, conv)
         IN BuildFetchAll(i + 1, failures, newestFirst, userMap,
                IF failures[conv.id].kind = "history" THEN allMessages
                ELSE BuildConvLoop(PageOrder(newestFirst, BuildHistory(conv)),
                                   failures[conv.id], channelName, allMessages))

BuildFailures ==
    { f \in [ConvIds -> UNION { FailureChoices(BuildHistory(Conversations[k])) :
                                  k \in 1..Len(Conversations) }] :
        \A k \in 1..Len(Conversations) :
            f[Conversations[k].id] \in FailureChoices(BuildHistory(Conversations[k])) }

BuildCursorsFirstSeen(allMessages, conversationCursors) ==
    [c \in ConvIds |->
       IF \E k \in 1..Len(allMessages) : allMessages[k].channelId = c
       THEN allMessages[CHOOSE k \in 1..Len(allMessages) :
                          /\ allMessages[k].channelId = c
                          /\ \A j \in 1..(k - 1) : allMessages[j].channelId # c].ts
       ELSE conversationCursors[c]]

RECURSIVE BuildCursors(_, _)
BuildCursors(allMessages, conversationCursors) ==
    IF allMessages = <<>> THEN conversationCursors
    ELSE LET msg == Head(allMessages)
         IN BuildCursors(Tail(allMessages),
                IF conversationCursors[msg.channelId] = 0
                     \/ msg.ts > conversationCursors[msg.channelId]
                THEN [conversationCursors EXCEPT ![msg.channelId] = msg.ts]
                ELSE conversationCursors)

MinDate(allMessages) ==
    CHOOSE d \in { slackTsToUnix(m.ts) : m \in Range(allMessages) } :
        \A m \in Range(allMessages) : d <= slackTsToUnix(m.ts)

MaxDate(allMessages) ==
    CHOOSE d \in { slackTsToUnix(m.ts) : m \in Range(allMessages) } :
        \A m \in Range(allMessages) : d >= slackTsToUnix(m.ts)

BuildStatsRecord(allMessages, indexedMessages) ==
    [totalMessages |-> Cardinality(indexedMessages),
     totalChats |-> Cardinality({ m.chatId : m \in indexedMessages }),
     totalContacts |-> Cardinality({ m.sender : m \in indexedMessages }),
     indexedAt |-> WallClock,
     oldestMessage |-> IF allMessages = <<>> THEN Now ELSE DateOf(MinDate(allMessages)),
     newestMessage |-> IF allMessages = <<>> \/ MaxDate(allMessages) = 0
                       THEN Now ELSE DateOf(MaxDate(allMessages)),
     workspaceId |-> AuthInfo.teamId,
     workspaceName |-> AuthInfo.teamName,
     conversationCursors |-> BuildCursors(allMessages, NoCursors)]

BuildNoWorkspace ==
    /\ pc = "idle"
    /\ config = <<>>
    /\ last' = Ended("build", "no_workspace", FALSE, db, fuzzy)
    /\ UNCHANGED <<config, remote, users, db, fuzzy, stats, interrupts, failedSyncs, pc, run>>

BuildAuthFailAfterUsers ==
    /\ pc = "idle"
    /\ config # <<>>
    /\ users' = [exists |-> TRUE, list |-> RemoteUsers]
    /\ last' = Ended("build", "auth_failed", FALSE, db, fuzzy)
    /\ UNCHANGED <<config, remote, db, fuzzy, stats, interrupts, failedSyncs, pc, run>>

BuildAuthFail ==
    /\ pc = "idle"
    /\ config # <<>>
    /\ last' = Ended("build", "auth_failed", FALSE, db, fuzzy)
    /\ UNCHANGED <<config, remote, users, db, fuzzy, stats, interrupts, failedSyncs, pc, run>>

BuildFetch ==
    /\ pc = "idle"
    /\ WallClock <= MaxClock
    /\ config # <<>>
    /\ users' = [exists |-> TRUE, list |-> RemoteUsers]
    /\ \E failures \in BuildFailures, newestFirst \in BOOLEAN :
         LET failed == \E c \in ConvIds : failures[c] # NoFailure
         IN /\ FetchBudget(failed)
            /\ run' = [op |-> "build",
                       msgs |-> BuildFetchAll(1, failures, newestFirst, RemoteUsers, <<>>),
                       cursors |-> NoCursors, failed |-> failed]
    /\ pc' = "b_db"
    /\ UNCHANGED <<config, remote, db, fuzzy, stats, interrupts, last>>

BuildRecreate ==
    /\ pc = "b_db"
    /\ db' = [exists |-> TRUE, rows |-> NoRows, seq |-> 0]
    /\ pc' = "b_insert"
    /\ UNCHANGED <<config, remote, users, fuzzy, stats, interrupts, failedSyncs, run, last>>

BuildInsert ==
    /\ pc = "b_insert"
    /\ LET table == insertBatch([rows |-> db.rows, seq |-> db.seq], run.msgs, users.list)
       IN db' = [exists |-> TRUE, rows |-> table.rows, seq |-> table.seq]
    /\ pc' = "b_fuzzy"
    /\ UNCHANGED <<config, remote, users, fuzzy, stats, interrupts, failedSyncs, run, last>>

BuildFuzzy ==
    /\ pc = "b_fuzzy"
    /\ fuzzy' = [exists |-> TRUE, docs |-> addAll({}, { IndexedMessage(r) : r \in db.rows })]
    /\ pc' = "b_stats"
    /\ UNCHANGED <<config, remote, users, db, stats, interrupts, failedSyncs, run, last>>

BuildStats ==
    /\ pc = "b_stats"
    /\ stats' = << BuildStatsRecord(run.msgs, { IndexedMessage(r) : r \in db.rows }) >>
    /\ last' = Ended("build", "done", run.failed, db, fuzzy)
    /\ pc' = "idle"
    /\ run' = Idle
    /\ UNCHANGED <<config, remote, users, db, fuzzy, interrupts, failedSyncs>>

\* -------------------------------------------------------------- updateIndex
UpdateHistory(conv) == getConversationHistory(conv.id, stats[1].conversationCursors[conv.id])

InitialCursorsEmpty(existingStats) == NoCursors

InitialCursors(existingStats) == existingStats.conversationCursors

RECURSIVE UpdateConvLoop(_, _, _, _)
UpdateConvLoop(messages, failure, channelName, acc) ==
    IF messages = <<>> THEN acc
    ELSE LET msg == Head(messages)
             pushed == Append(acc.msgs, RawSlackMessage(msg, channelName))
             advanced ==
                 IF acc.cursors[msg.channelId] = 0 \/ msg.ts > acc.cursors[msg.channelId]
                 THEN [acc.cursors EXCEPT ![msg.channelId] = msg.ts]
                 ELSE acc.cursors
         IN IF msg.replyCount > 0
            THEN IF failure.kind = "replies" /\ failure.ts = msg.ts
                 THEN [msgs |-> pushed, cursors |-> acc.cursors]
                 ELSE UpdateConvLoop(Tail(messages), failure, channelName,
                          [msgs |-> pushed \o RawAll(getThreadReplies(msg.channelId, msg.ts),
                                                     channelName),
                           cursors |-> advanced])
            ELSE UpdateConvLoop(Tail(messages), failure, channelName,
                                [msgs |-> pushed, cursors |-> advanced])

RECURSIVE UpdateFetchAll(_, _, _, _, _)
UpdateFetchAll(i, failures, newestFirst, userMap, acc) ==
    IF i > Len(Conversations) THEN acc
    ELSE LET conv == Conversations[i]
             channelName == resolveConversationName(userMap, conv)
         IN UpdateFetchAll(i + 1, failures, newestFirst, userMap,
                IF failures[conv.id].kind = "history" THEN acc
                ELSE UpdateConvLoop(PageOrder(newestFirst, UpdateHistory(conv)),
                                    failures[conv.id], channelName, acc))

UpdateFailures ==
    { f \in [ConvIds -> UNION { FailureChoices(UpdateHistory(Conversations[k])) :
                                  k \in 1..Len(Conversations) }] :
        \A k \in 1..Len(Conversations) :
            f[Conversations[k].id] \in FailureChoices(UpdateHistory(Conversations[k])) }

NoopStatsStale(existingStats, updatedCursors) ==
    [existingStats EXCEPT !.conversationCursors = updatedCursors]

NoopStats(existingStats, updatedCursors) ==
    [existingStats EXCEPT !.indexedAt = WallClock, !.conversationCursors = updatedCursors]

NewRows(rows, newMessages) == { r \in rows : \E m \in Range(newMessages) : m.ts = r.ts }

NewestDate(existingStats, newRows) ==
    IF newRows = {} \/ \A r \in newRows : r.date <= existingStats.newestMessage.t
    THEN existingStats.newestMessage.t
    ELSE CHOOSE d \in { r.date : r \in newRows } : \A r \in newRows : r.date <= d

UpdatedStats(existingStats, newRows, updatedCursors) ==
    [totalMessages |-> existingStats.totalMessages + Cardinality(newRows),
     totalChats |-> existingStats.totalChats,
     totalContacts |-> existingStats.totalContacts,
     indexedAt |-> WallClock,
     oldestMessage |-> existingStats.oldestMessage,
     newestMessage |-> DateOf(NewestDate(existingStats, newRows)),
     workspaceId |-> existingStats.workspaceId,
     workspaceName |-> existingStats.workspaceName,
     conversationCursors |-> updatedCursors]

UpdateNoIndex ==
    /\ pc = "idle"
    /\ ~HasCursors
    /\ last' = Ended("update", "null", FALSE, db, fuzzy)
    /\ UNCHANGED <<config, remote, users, db, fuzzy, stats, interrupts, failedSyncs, pc, run>>

UpdateNoWorkspace ==
    /\ pc = "idle"
    /\ HasCursors
    /\ config = <<>>
    /\ last' = Ended("update", "no_workspace", FALSE, db, fuzzy)
    /\ UNCHANGED <<config, remote, users, db, fuzzy, stats, interrupts, failedSyncs, pc, run>>

UpdateAuthFail ==
    /\ pc = "idle"
    /\ HasCursors
    /\ config # <<>>
    /\ last' = Ended("update", "auth_failed", FALSE, db, fuzzy)
    /\ UNCHANGED <<config, remote, users, db, fuzzy, stats, interrupts, failedSyncs, pc, run>>

UpdateFetch ==
    /\ pc = "idle"
    /\ HasCursors
    /\ WallClock <= MaxClock
    /\ config # <<>>
    /\ \E failures \in UpdateFailures, newestFirst \in BOOLEAN :
         LET failed == \E c \in ConvIds : failures[c] # NoFailure
             fetched == UpdateFetchAll(1, failures, newestFirst, loadUsersCache,
                            [msgs |-> <<>>, cursors |-> InitialCursors(stats[1])])
         IN /\ FetchBudget(failed)
            /\ run' = [op |-> "update", msgs |-> fetched.msgs, cursors |-> fetched.cursors,
                       failed |-> failed]
            /\ pc' = IF fetched.msgs = <<>> THEN "u_noop" ELSE "u_insert"
    /\ UNCHANGED <<config, remote, users, db, fuzzy, stats, interrupts, last>>

UpdateNoNew ==
    /\ pc = "u_noop"
    /\ stats' = << NoopStats(stats[1], run.cursors) >>
    /\ last' = Ended("update", "done", run.failed, db, fuzzy)
    /\ pc' = "idle"
    /\ run' = Idle
    /\ UNCHANGED <<config, remote, users, db, fuzzy, interrupts, failedSyncs>>

UpdateInsert ==
    /\ pc = "u_insert"
    /\ LET table == insertBatch([rows |-> db.rows, seq |-> db.seq], run.msgs, loadUsersCache)
       IN db' = [exists |-> TRUE, rows |-> table.rows, seq |-> table.seq]
    /\ pc' = "u_fuzzy"
    /\ UNCHANGED <<config, remote, users, fuzzy, stats, interrupts, failedSyncs, run, last>>

UpdateFuzzy ==
    /\ pc = "u_fuzzy"
    /\ LET newIndexedMessages == { IndexedMessage(r) : r \in NewRows(db.rows, run.msgs) }
       IN /\ ~DuplicateId(fuzzy.docs, newIndexedMessages)
          /\ fuzzy' = [exists |-> TRUE, docs |-> addAll(fuzzy.docs, newIndexedMessages)]
    /\ pc' = "u_stats"
    /\ UNCHANGED <<config, remote, users, db, stats, interrupts, failedSyncs, run, last>>

UpdateDuplicateId ==
    /\ pc = "u_fuzzy"
    /\ DuplicateId(fuzzy.docs, { IndexedMessage(r) : r \in NewRows(db.rows, run.msgs) })
    /\ last' = Ended("update", "duplicate_id", run.failed, db, fuzzy)
    /\ pc' = "idle"
    /\ run' = Idle
    /\ UNCHANGED <<config, remote, users, db, fuzzy, stats, interrupts, failedSyncs>>

UpdateStats ==
    /\ pc = "u_stats"
    /\ stats' = << UpdatedStats(stats[1], NewRows(db.rows, run.msgs), run.cursors) >>
    /\ last' = Ended("update", "done", run.failed, db, fuzzy)
    /\ pc' = "idle"
    /\ run' = Idle
    /\ UNCHANGED <<config, remote, users, db, fuzzy, interrupts, failedSyncs>>

\* ------------------------------------------------------- progress of the syncs
\* The phases of IndexProgress, in the order the type lists them.
IndexProgressPhases ==
    << "auth", "users", "conversations", "messages", "threads",
       "indexing-fts", "indexing-fuzzy", "done" >>

PhaseRank(phase) == CHOOSE i \in 1..Len(IndexProgressPhases) : IndexProgressPhases[i] = phase

Repeat(phase, n) == [i \in 1..n |-> phase]

\* A variant of onProgress in which buildIndex reports `done` as soon as
\* fuzzy.json is written, before stats.json.
onProgressDoneBeforeStats(step, messages) ==
    CASE step = "BuildAuthFail" -> << "auth" >>
      [] step = "BuildFetch" ->
             << "auth", "users", "conversations" >>
                 \o Repeat("messages", Len(Conversations)) \o << "indexing-fts" >>
      [] step = "BuildInsert" -> IF messages = <<>> THEN <<>> ELSE << "indexing-fts" >>
      [] step = "BuildFuzzy" -> << "indexing-fuzzy", "done" >>
      [] step = "UpdateAuthFail" -> << "auth" >>
      [] step = "UpdateFetch" ->
             << "auth", "conversations" >> \o Repeat("messages", Len(Conversations))
                 \o (IF messages = <<>> THEN <<>> ELSE << "indexing-fts" >>)
      [] step = "UpdateNoNew" -> << "done" >>
      [] step = "UpdateFuzzy" -> << "indexing-fuzzy", "indexing-fuzzy" >>
      [] step = "UpdateDuplicateId" -> << "indexing-fuzzy" >>
      [] step = "UpdateStats" -> << "done" >>
      [] OTHER -> <<>>

\* The phases a step of a sync hands to onProgress, in order; `messages` are
\* the messages the sync fetched.
onProgress(step, messages) ==
    CASE step = "BuildAuthFail" -> << "auth" >>
      [] step = "BuildFetch" ->
             << "auth", "users", "conversations" >>
                 \o Repeat("messages", Len(Conversations)) \o << "indexing-fts" >>
      [] step = "BuildInsert" -> IF messages = <<>> THEN <<>> ELSE << "indexing-fts" >>
      [] step = "BuildFuzzy" ->
             << "indexing-fuzzy" >> \o (IF messages = <<>> THEN <<>> ELSE << "indexing-fuzzy" >>)
      [] step = "BuildStats" -> << "done" >>
      [] step = "UpdateAuthFail" -> << "auth" >>
      [] step = "UpdateFetch" ->
             << "auth", "conversations" >> \o Repeat("messages", Len(Conversations))
                 \o (IF messages = <<>> THEN <<>> ELSE << "indexing-fts" >>)
      [] step = "UpdateNoNew" -> << "done" >>
      [] step = "UpdateFuzzy" -> << "indexing-fuzzy", "indexing-fuzzy" >>
      [] step = "UpdateDuplicateId" -> << "indexing-fuzzy" >>
      [] step = "UpdateStats" -> << "done" >>
      [] OTHER -> <<>>

\* The step of a sync that a transition takes.
Step ==
    CASE pc = "idle" /\ pc' = "b_db" -> "BuildFetch"
      [] pc = "b_db" /\ pc' = "b_insert" -> "BuildRecreate"
      [] pc = "b_insert" /\ pc' = "b_fuzzy" -> "BuildInsert"
      [] pc = "b_fuzzy" /\ pc' = "b_stats" -> "BuildFuzzy"
      [] pc = "b_stats" /\ last'.result = "done" -> "BuildStats"
      [] pc = "idle" /\ pc' \in {"u_noop", "u_insert"} -> "UpdateFetch"
      [] pc = "u_noop" /\ last'.result = "done" -> "UpdateNoNew"
      [] pc = "u_insert" /\ pc' = "u_fuzzy" -> "UpdateInsert"
      [] pc = "u_fuzzy" /\ pc' = "u_stats" -> "UpdateFuzzy"
      [] pc = "u_fuzzy" /\ last'.result = "duplicate_id" -> "UpdateDuplicateId"
      [] pc = "u_stats" /\ last'.result = "done" -> "UpdateStats"
      [] pc # "idle" /\ last'.result = "interrupted" -> "Interrupt"
      [] pc = "idle" /\ BuildAuthFail -> "BuildAuthFail"
      [] pc = "idle" /\ UpdateAuthFail -> "UpdateAuthFail"
      [] OTHER -> "none"

\* The phases the running sync has reported up to the current state.
Reported ==
    CASE pc = "b_db" -> onProgress("BuildFetch", run.msgs)
      [] pc = "b_insert" -> onProgress("BuildFetch", run.msgs)
      [] pc = "b_fuzzy" ->
             onProgress("BuildFetch", run.msgs) \o onProgress("BuildInsert", run.msgs)
      [] pc = "b_stats" ->
             onProgress("BuildFetch", run.msgs) \o onProgress("BuildInsert", run.msgs)
                 \o onProgress("BuildFuzzy", run.msgs)
      [] pc = "u_noop" -> onProgress("UpdateFetch", run.msgs)
      [] pc = "u_insert" -> onProgress("UpdateFetch", run.msgs)
      [] pc = "u_fuzzy" -> onProgress("UpdateFetch", run.msgs)
      [] pc = "u_stats" ->
             onProgress("UpdateFetch", run.msgs) \o onProgress("UpdateFuzzy", run.msgs)
      [] OTHER -> <<>>

\* ------------------------------------------------------------------ config.ts
addWorkspace(workspace) ==
    /\ pc = "idle"
    /\ config' =
         IF \E k \in 1..Len(config) : config[k].id = workspace.id
         THEN [k \in 1..Len(config) |->
                 IF config[k].id = workspace.id THEN workspace ELSE config[k]]
         ELSE Append(config, workspace)
    /\ UNCHANGED <<remote, users, db, fuzzy, stats, interrupts, failedSyncs, pc, run, last>>

removeWorkspace(workspaceId) ==
    /\ pc = "idle"
    /\ \E k \in 1..Len(config) : config[k].id = workspaceId
    /\ config' = SelectSeq(config, LAMBDA w : w.id # workspaceId)
    /\ UNCHANGED <<remote, users, db, fuzzy, stats, interrupts, failedSyncs, pc, run, last>>

\* ------------------------------------------------------------ the environment
Post(channelId, parent) ==
    /\ pc = "idle"
    /\ Len(remote) < MaxMsgs
    /\ parent # 0 =>
         \E j \in 1..Len(remote) :
             /\ remote[j].ts = parent
             /\ remote[j].channel = channelId
             /\ remote[j].parent = 0
    /\ remote' = Append(remote,
                    [ts |-> NextTs, user |-> AuthorOf(Len(remote) + 1),
                     text |-> Len(remote) + 1, channel |-> channelId, parent |-> parent])
    /\ last' = NoRun
    /\ UNCHANGED <<config, users, db, fuzzy, stats, interrupts, failedSyncs, pc, run>>

Interrupt ==
    /\ pc # "idle"
    /\ interrupts < MaxInterrupts
    /\ interrupts' = interrupts + 1
    /\ pc' = "idle"
    /\ last' = Ended(run.op, "interrupted", FALSE, db, fuzzy)
    /\ run' = Idle
    /\ UNCHANGED <<config, remote, users, db, fuzzy, stats, failedSyncs>>

Init ==
    /\ config = <<Workspace>>
    /\ remote = <<>>
    /\ users = [exists |-> FALSE, list |-> {}]
    /\ db = [exists |-> FALSE, rows |-> NoRows, seq |-> 0]
    /\ fuzzy = [exists |-> FALSE, docs |-> {}]
    /\ stats = <<>>
    /\ interrupts = 0
    /\ failedSyncs = 0
    /\ pc = "idle"
    /\ run = Idle
    /\ last = NoRun

Sync ==
    \/ BuildNoWorkspace
    \/ BuildAuthFail
    \/ BuildFetch
    \/ BuildRecreate
    \/ BuildInsert
    \/ BuildFuzzy
    \/ BuildStats
    \/ UpdateNoIndex
    \/ UpdateNoWorkspace
    \/ UpdateAuthFail
    \/ UpdateFetch
    \/ UpdateNoNew
    \/ UpdateInsert
    \/ UpdateFuzzy
    \/ UpdateDuplicateId
    \/ UpdateStats

Next ==
    \/ removeWorkspace(Workspace.id)
    \/ \E c \in ConvIds, p \in {0} \cup { remote[j].ts : j \in 1..Len(remote) } : Post(c, p)
    \/ Sync
    \/ Interrupt

Spec == Init /\ [][Next]_vars

\* ================================================================= search.ts
\* TLC cannot look inside a string, so the strings that search inspects are
\* sequences of one-character strings.  Chars gives the characters of the
\* names the model's workspace uses (any other name counts as one character);
\* a message text of a search corpus is a sequence of characters already.
Chars(s) ==
    CASE s = "Bob B" -> <<"B", "o", "b", " ", "B">>
      [] s = "ali" -> <<"a", "l", "i">>
      [] s = "general" -> <<"g", "e", "n", "e", "r", "a", "l">>
      [] s = "" -> <<>>
      [] OTHER -> <<s>>

\* a value that is no string: an option left out
Undefined == <<"undefined">>

\* JavaScript truthiness of an optional string
Truthy(s) == s # Undefined /\ s # <<>>

UpperCase == <<"A", "B", "C", "D", "E", "F", "G", "H", "I", "J", "K", "L", "M",
               "N", "O", "P", "Q", "R", "S", "T", "U", "V", "W", "X", "Y", "Z">>
LowerCase == <<"a", "b", "c", "d", "e", "f", "g", "h", "i", "j", "k", "l", "m",
               "n", "o", "p", "q", "r", "s", "t", "u", "v", "w", "x", "y", "z">>

LowerOf == [c \in { UpperCase[k] : k \in 1..Len(UpperCase) } |->
              LowerCase[CHOOSE k \in 1..Len(UpperCase) : UpperCase[k] = c]]

toLowerCaseChar(c) == IF c \in DOMAIN LowerOf THEN LowerOf[c] ELSE c

\* String.prototype.toLowerCase, and SQLite's LOWER on ASCII
toLowerCase(s) == [k \in 1..Len(s) |-> toLowerCaseChar(s[k])]

\* String.prototype.includes
includes(s, sub) ==
    \E k \in 0..(Len(s) - Len(sub)) : \A j \in 1..Len(sub) : s[k + j] = sub[j]

\* String.prototype.trim() === ''
TrimIsEmpty(s) == \A k \in 1..Len(s) : s[k] = " "

\* SQLite's LIKE: % is any run of characters, _ is any one character, and a
\* letter matches in either case.
RECURSIVE Like(_, _)
Like(text, pattern) ==
    IF pattern = <<>> THEN text = <<>>
    ELSE IF Head(pattern) = "%"
         THEN Like(text, Tail(pattern)) \/ (text # <<>> /\ Like(Tail(text), pattern))
         ELSE /\ text # <<>>
              /\ \/ Head(pattern) = "_"
                 \/ toLowerCaseChar(Head(pattern)) = toLowerCaseChar(Head(text))
              /\ Like(Tail(text), Tail(pattern))

\* MiniSearch's tokenizer splits at spaces and punctuation; its processTerm
\* lowers the case.
Separators == {" ", ".", ",", "-", "_", "*", "%"}

RECURSIVE Tokens(_, _)
Tokens(s, word) ==
    IF s = <<>> THEN (IF word = <<>> THEN {} ELSE {word})
    ELSE IF Head(s) \in Separators
         THEN (IF word = <<>> THEN {} ELSE {word}) \cup Tokens(Tail(s), <<>>)
         ELSE Tokens(Tail(s), Append(word, toLowerCaseChar(Head(s))))

tokenize(s) == Tokens(s, <<>>)

\* Edit distance (insert, delete, substitute), row by row.
Min2(a, b) == IF a <= b THEN a ELSE b

RECURSIVE LevRow(_, _, _, _)
LevRow(prev, c, t, row) ==
    IF Len(row) = Len(t) + 1 THEN row
    ELSE LET j == Len(row)
             cost == IF t[j] = c THEN 0 ELSE 1
         IN LevRow(prev, c, t,
                   Append(row, Min2(Min2(prev[j + 1] + 1, row[j] + 1), prev[j] + cost)))

RECURSIVE LevRows(_, _, _)
LevRows(q, t, prev) ==
    IF q = <<>> THEN prev[Len(t) + 1]
    ELSE LevRows(Tail(q), t, LevRow(prev, Head(q), t, <<prev[1] + 1>>))

editDistance(q, t) == LevRows(q, t, [k \in 1..(Len(t) + 1) |-> k - 1])

\* ------------------------------------------------------------ SQLite queries
\* ORDER BY date with LIMIT: rows of one date come in rowid order, ascending or
\* descending as the scan runs (idAsc); SQL fixes neither.
RECURSIVE OrderByDate(_, _, _)
OrderByDate(rows, desc, idAsc) ==
    IF rows = {} THEN <<>>
    ELSE LET first == CHOOSE r \in rows : \A o \in rows :
                          \/ (IF desc THEN r.date > o.date ELSE r.date < o.date)
                          \/ /\ r.date = o.date
                             /\ (IF idAsc THEN r.id <= o.id ELSE r.id >= o.id)
         IN <<first>> \o OrderByDate(rows \ {first}, desc, idAsc)

\* LIMIT n, and Array.prototype.slice(0, n), for n >= 0
slice(seq, n) == SubSeq(seq, 1, Min2(n, Len(seq)))

rowToMessage(row) ==
    [id |-> row.id, text |-> row.text, sender |-> row.sender, chatName |-> row.chat_name,
     chatId |-> row.chat_id, date |-> row.date, isFromMe |-> (row.is_from_me = 1),
     threadTs |-> row.thread_ts]

MsPerSec == 1000
FlatScore == 1
FilterInflation == 20

\* after is a Date or left out: the set of its one getTime(), or no time
NoDate == {}

\* Math.floor(after.getTime() / 1000)
afterFloor(after) == (CHOOSE ms \in after : TRUE) \div MsPerSec

SenderIncludes(sender, fromLower) == includes(toLowerCase(Chars(sender)), fromLower)

SenderLike(sender, fromLower) ==
    Like(toLowerCase(Chars(sender)), <<"%">> \o fromLower \o <<"%">>)

searchBySender(from, after, limit, idAsc) ==
    LET fromLower == toLowerCase(from)
        afterTimestamp == IF after # NoDate THEN afterFloor(after) ELSE 0
        rows == slice(OrderByDate({ r \in db.rows :
                                      /\ SenderLike(r.sender, fromLower)
                                      /\ r.is_from_me = 0
                                      /\ r.date >= afterTimestamp }, TRUE, idAsc), limit)
    IN [k \in 1..Len(rows) |->
          [message |-> rowToMessage(rows[k]), score |-> FlatScore, matchedTerms |-> {}]]

\* --------------------------------------------------------------- MiniSearch
\* fuzzy: 0.2 allows round(0.2 * length) edits of a query term, six at most
maxDistanceNone(term) == 0

maxDistance(term) == Min2(6, (2 * Len(term) + 5) \div 10)

startsWith(t, q) == Len(q) <= Len(t) /\ SubSeq(t, 1, Len(q)) = q

\* prefix: true and fuzzy together: a query term finds an indexed term that it
\* equals, that it begins, or that is within its edit budget
termMatches(q, t) ==
    \/ startsWith(t, q)
    \/ (maxDistance(q) > 0 /\ editDistance(q, t) <= maxDistance(q))

fieldHits(queryTerms, field) ==
    { q \in queryTerms : \E t \in tokenize(field) : termMatches(q, t) }

matchedTerms(queryTerms, doc) ==
    fieldHits(queryTerms, doc.text) \cup fieldHits(queryTerms, Chars(doc.sender))
        \cup fieldHits(queryTerms, Chars(doc.chatName))

\* The relevance of MiniSearch is BM25+ per field times the boost; the model
\* keeps of it the boosts (text 2, sender 1.5, chatName 1, doubled to stay
\* whole) and that documents with the same fields score the same.
score(queryTerms, doc) ==
    4 * Cardinality(fieldHits(queryTerms, doc.text))
      + 3 * Cardinality(fieldHits(queryTerms, Chars(doc.sender)))
      + 2 * Cardinality(fieldHits(queryTerms, Chars(doc.chatName)))

\* results by score, best first; equal scores stay in the order of addAll,
\* which is the order of the ids
RECURSIVE byScore(_)
byScore(results) ==
    IF results = {} THEN <<>>
    ELSE LET best == CHOOSE r \in results : \A o \in results :
                         \/ r.score > o.score
                         \/ r.score = o.score /\ r.doc.id <= o.doc.id
         IN <<best>> \o byScore(results \ {best})

miniSearchSearchKeepsSelf(query, fromLower) ==
    LET queryTerms == tokenize(query)
        found == { [doc |-> d, score |-> score(queryTerms, d),
                    terms |-> matchedTerms(queryTerms, d)] : d \in fuzzy.docs }
    IN byScore({ r \in found :
                   /\ r.terms # {}
                   /\ Truthy(fromLower) => SenderIncludes(r.doc.sender, fromLower) })

\* miniSearch.search(query, {fuzzy, prefix, boost, filter}); combineWith is OR
miniSearchSearch(query, fromLower) ==
    LET queryTerms == tokenize(query)
        found == { [doc |-> d, score |-> score(queryTerms, d),
                    terms |-> matchedTerms(queryTerms, d)] : d \in fuzzy.docs }
    IN byScore({ r \in found :
                   /\ r.terms # {}
                   /\ Truthy(fromLower) =>
                        (~r.doc.isFromMe /\ SenderIncludes(r.doc.sender, fromLower)) })

searchByTextUndated(query, from, after, limit) ==
    LET fromLower == IF from = Undefined THEN Undefined ELSE toLowerCase(from)
        fuzzyResults == miniSearchSearch(query, fromLower)
        sliced == slice(fuzzyResults, limit)
    IN [k \in 1..Len(sliced) |->
          [message |-> sliced[k].doc, score |-> sliced[k].score,
           matchedTerms |-> sliced[k].terms]]

searchByText(query, from, after, limit) ==
    LET fromLower == IF from = Undefined THEN Undefined ELSE toLowerCase(from)
        hasFilters == Truthy(from) \/ after # NoDate
        searchLimit == IF hasFilters THEN limit * FilterInflation ELSE limit
        fuzzyResults == miniSearchSearch(query, fromLower)
        sliced == slice(fuzzyResults, searchLimit)
        results == [k \in 1..Len(sliced) |->
                      [message |-> sliced[k].doc, score |-> sliced[k].score,
                       matchedTerms |-> sliced[k].terms]]
        dated == IF after # NoDate /\ afterFloor(after) # 0
                 THEN SelectSeq(results, LAMBDA r : r.message.date >= afterFloor(after))
                 ELSE results
    IN slice(dated, limit)

hasTextQuery(query) == Truthy(query) /\ query # <<"*">> /\ ~TrimIsEmpty(query)

contextQueryAnyChat(chatId, date, context, idAsc) ==
    slice(OrderByDate({ r \in db.rows : r.date < date }, TRUE, idAsc), context)

contextQuery(chatId, date, context, idAsc) ==
    slice(OrderByDate({ r \in db.rows : r.chat_id = chatId /\ r.date < date }, TRUE, idAsc),
          context)

\* A variant of afterContextQuery that compares with >=.
afterContextQueryFromDate(chatId, date, context, idAsc) ==
    slice(OrderByDate({ r \in db.rows : r.chat_id = chatId /\ r.date >= date }, FALSE, idAsc),
          context)

afterContextQuery(chatId, date, context, idAsc) ==
    slice(OrderByDate({ r \in db.rows : r.chat_id = chatId /\ r.date > date }, FALSE, idAsc),
          context)

rowsToMessages(rows) == [k \in 1..Len(rows) |-> rowToMessage(rows[k])]

withContext(results, context, idAsc) ==
    [k \in 1..Len(results) |->
       [result |-> results[k],
        before |-> rowsToMessages(Reverse(contextQuery(results[k].message.chatId,
                                              results[k].message.date, context, idAsc))),
        after |-> rowsToMessages(afterContextQuery(results[k].message.chatId,
                                     results[k].message.date, context, idAsc))]]

Returned(options, results) ==
    [op |-> "search", options |-> options, result |-> "ok", results |-> results]

Thrown(options, message) ==
    [op |-> "search", options |-> options, result |-> "error", error |-> message,
     results |-> <<>>]

\* what one call of search leaves with its caller
searchOutcome(options, idAsc) ==
    IF ~db.exists THEN Thrown(options, "Index not found")
    ELSE IF Truthy(options.from) /\ ~hasTextQuery(options.query)
    THEN Returned(options,
             withContext(searchBySender(options.from, options.after, options.limit, idAsc),
                         options.context, idAsc))
    ELSE IF hasTextQuery(options.query)
    THEN IF ~fuzzy.exists THEN Thrown(options, "Fuzzy index not found")
         ELSE Returned(options,
                  withContext(searchByText(options.query, options.from, options.after,
                                           options.limit),
                              options.context, idAsc))
    ELSE Returned(options, <<>>)

\* ------------------------------------------------------- searching an index
\* A second specification: the workspace holds a few messages with real text,
\* a full sync without failure has indexed them, and search is called with
\* every shape of options.  A search is one step: it reads index.db and
\* fuzzy.json and writes nothing; last keeps what the call gave its caller.
\* Each call is a process of its own, so cachedDb and cachedMiniSearch start
\* empty; as no call writes anything, a behaviour holds one call.
MaxCorpus == 21
MaxLimit == 2
MaxContext == 1

Deadline == <<"d", "e", "a", "d", "l", "i", "n", "e">>
DeadBob == <<"D", "e", "a", "d", " ", "b", "o", "b">>
Texts == {Deadline, DeadBob}

Message(i, text, channel) ==
    [ts |-> TicksPerSec + i - 1, user |-> AuthorOf(i), text |-> text, channel |-> channel,
     parent |-> 0]

\* the workspaces searched: up to MaxMsgs messages of any text in any
\* conversation, and one conversation of MaxCorpus messages of the same text
Corpora ==
    UNION { { [i \in 1..n |-> Message(i, texts[i], channels[i])] :
                texts \in [1..n -> Texts], channels \in [1..n -> ConvIds] } :
            n \in 0..MaxMsgs }
      \cup { [i \in 1..MaxCorpus |-> Message(i, Deadline, "C1")] }

Indexed == insertBatch([rows |-> NoRows, seq |-> 0],
                       BuildFetchAll(1, [c \in ConvIds |-> NoFailure], FALSE, RemoteUsers, <<>>),
                       RemoteUsers)

\* stats.json of a first full sync: BuildStatsRecord at wall clock 1
FirstStats ==
    LET allMessages == BuildFetchAll(1, [c \in ConvIds |-> NoFailure], FALSE, RemoteUsers, <<>>)
        indexedMessages == { IndexedMessage(r) : r \in Indexed.rows }
        now == [wall |-> TRUE, t |-> 1]
    IN [totalMessages |-> Cardinality(indexedMessages),
        totalChats |-> Cardinality({ m.chatId : m \in indexedMessages }),
        totalContacts |-> Cardinality({ m.sender : m \in indexedMessages }),
        indexedAt |-> 1,
        oldestMessage |-> IF allMessages = <<>> THEN now ELSE DateOf(MinDate(allMessages)),
        newestMessage |-> IF allMessages = <<>> \/ MaxDate(allMessages) = 0
                          THEN now ELSE DateOf(MaxDate(allMessages)),
        workspaceId |-> AuthInfo.teamId,
        workspaceName |-> AuthInfo.teamName,
        conversationCursors |-> BuildCursors(allMessages, NoCursors)]

\* index.db and fuzzy.json after no sync, after a first sync that stopped
\* before it wrote fuzzy.json, and after a whole sync
SearchInit ==
    /\ config = <<Workspace>>
    /\ remote \in Corpora
    /\ users = [exists |-> TRUE, list |-> RemoteUsers]
    /\ \E synced \in {"never", "db", "all"} :
         /\ db = IF synced = "never" THEN [exists |-> FALSE, rows |-> NoRows, seq |-> 0]
                 ELSE [exists |-> TRUE, rows |-> Indexed.rows, seq |-> Indexed.seq]
         /\ fuzzy = IF synced = "all"
                    THEN [exists |-> TRUE, docs |-> { IndexedMessage(r) : r \in Indexed.rows }]
                    ELSE [exists |-> FALSE, docs |-> {}]
         /\ stats = IF synced = "all" THEN << FirstStats >> ELSE <<>>
    /\ interrupts = 0
    /\ failedSyncs = 0
    /\ pc = "idle"
    /\ run = Idle
    /\ last = NoRun

Queries == {Undefined, <<>>, <<" ">>, <<"*">>,
            <<"d", "e", "a", "d", "l", "n", "e">>, <<"B", "o", "b">>}
Froms == {Undefined, <<"B", "O">>, <<"l", "i">>, <<"b", "_", "b">>}
\* no date, and half a second past the oldest and the newest stored message
Afters == {NoDate}
            \cup { {MsPerSec * r.date + MsPerSec \div 2} :
                     r \in { x \in db.rows : \/ \A o \in db.rows : x.date <= o.date
                                             \/ \A o \in db.rows : x.date >= o.date } }
Limits == 1..MaxLimit
Contexts == 0..MaxContext

SearchOptions ==
    [query : Queries, from : Froms, after : Afters, limit : Limits, context : Contexts]

\* what ensureIndex does before a read: it looks whether index.db and
\* fuzzy.json exist and answers 'none' either way
ensureIndexRebuilds ==
    /\ db' = [exists |-> TRUE, rows |-> NoRows, seq |-> 0]
    /\ UNCHANGED <<users, fuzzy, stats, pc, run>>

ensureIndex == UNCHANGED <<users, db, fuzzy, stats, pc, run>>

search(options) ==
    /\ pc = "idle"
    /\ last = NoRun
    /\ ensureIndex
    /\ \E idAsc \in BOOLEAN : last' = searchOutcome(options, idAsc)
    /\ UNCHANGED <<config, remote, interrupts, failedSyncs>>

\* ------------------------------------------------------------ browse functions
Read(op, options, results) ==
    IF ~db.exists
    THEN [op |-> op, options |-> options, result |-> "error", error |-> "Index not found",
          results |-> <<>>]
    ELSE [op |-> op, options |-> options, result |-> "ok", results |-> results]

MaxOf(numbers) == CHOOSE n \in numbers : \A o \in numbers : n >= o

\* GROUP BY: one row for each key, with MAX(date), COUNT(*), and the bare
\* columns of a row that holds the maximum
Group(rows, key) ==
    LET newest == MaxOf({ r.date : r \in rows })
    IN [key |-> key, date |-> newest, count |-> Cardinality(rows),
        id |-> MaxOf({ r.id : r \in { x \in rows : x.date = newest } }),
        chat_name |-> (CHOOSE r \in rows : r.date = newest).chat_name]

getRecentMessagesRows(limit, idAsc) ==
    LET rows == slice(OrderByDate(db.rows, TRUE, idAsc), limit)
    IN [k \in 1..Len(rows) |->
          [message |-> rowToMessage(rows[k]), chatName |-> rows[k].chat_name]]

getContactsRows(limit, idAsc) ==
    LET rows == { r \in db.rows : r.sender # "" /\ r.is_from_me = 0 }
        groups == { Group({ r \in rows : r.sender = s }, s) : s \in { r.sender : r \in rows } }
        ordered == slice(OrderByDate(groups, TRUE, idAsc), limit)
    IN [k \in 1..Len(ordered) |->
          [name |-> ordered[k].key, lastMessageDate |-> ordered[k].date,
           messageCount |-> ordered[k].count]]

getConversationsRows(limit, idAsc) ==
    LET rows == { r \in db.rows : r.chat_name # "" }
        groups == { Group({ r \in rows : r.chat_id = c }, c) : c \in { r.chat_id : r \in rows } }
        ordered == slice(OrderByDate(groups, TRUE, idAsc), limit)
    IN [k \in 1..Len(ordered) |->
          [chatId |-> ordered[k].key, chatName |-> ordered[k].chat_name,
           lastMessageDate |-> ordered[k].date, messageCount |-> ordered[k].count,
           lastMessage |->
               OrderByDate({ r \in db.rows : r.chat_id = ordered[k].key }, TRUE, idAsc)[1].text]]

ThreadDefaultLimit == 100

getThreadRows(channel, options, idAsc) ==
    LET channelLower == toLowerCase(channel)
        afterTimestamp == IF options.after # NoDate THEN afterFloor(options.after) ELSE 0
        limit == IF options.limit = {} THEN ThreadDefaultLimit
                 ELSE CHOOSE n \in options.limit : TRUE
    IN rowsToMessages(slice(OrderByDate({ r \in db.rows :
                                            /\ SenderLike(r.chat_name, channelLower)
                                            /\ r.date >= afterTimestamp }, FALSE, idAsc),
                            limit))

getRecentMessages(limit) ==
    /\ pc = "idle"
    /\ last = NoRun
    /\ ensureIndex
    /\ \E idAsc \in BOOLEAN :
         last' = Read("getRecentMessages", [limit |-> limit], getRecentMessagesRows(limit, idAsc))
    /\ UNCHANGED <<config, remote, interrupts, failedSyncs>>

getContacts(limit) ==
    /\ pc = "idle"
    /\ last = NoRun
    /\ ensureIndex
    /\ \E idAsc \in BOOLEAN :
         last' = Read("getContacts", [limit |-> limit], getContactsRows(limit, idAsc))
    /\ UNCHANGED <<config, remote, interrupts, failedSyncs>>

getConversations(limit) ==
    /\ pc = "idle"
    /\ last = NoRun
    /\ ensureIndex
    /\ \E idAsc \in BOOLEAN :
         last' = Read("getConversations", [limit |-> limit], getConversationsRows(limit, idAsc))
    /\ UNCHANGED <<config, remote, interrupts, failedSyncs>>

getThread(channel, options) ==
    /\ pc = "idle"
    /\ last = NoRun
    /\ ensureIndex
    /\ \E idAsc \in BOOLEAN :
         last' = Read("getThread", [channel |-> channel, after |-> options.after,
                                   limit |-> options.limit],
                      getThreadRows(channel, options, idAsc))
    /\ UNCHANGED <<config, remote, interrupts, failedSyncs>>

Channels == {<<"G", "e", "n">>, <<"b", "o", "b">>}

\* limit is left out or given: no number, or the set of the one given
ThreadOptions == [after : Afters, limit : {{}} \cup { {n} : n \in Limits }]

SearchNext ==
    \/ \E options \in SearchOptions : search(options)
    \/ \E limit \in Limits : getRecentMessages(limit)
    \/ \E limit \in Limits : getContacts(limit)
    \/ \E limit \in Limits : getConversations(limit)
    \/ \E channel \in Channels, options \in ThreadOptions : getThread(channel, options)

SearchSpec == SearchInit /\ [][SearchNext]_vars

\* ------------------------------------------------------------ typo tolerance
\* A third specification: the index holds one message whose text is one word
\* over a two-letter alphabet, and every such word is searched for.
MaxWord == 5

Alphabet == {"a", "b"}

Words == UNION { [1..n -> Alphabet] : n \in 1..MaxWord }

TypoInit ==
    /\ config = <<Workspace>>
    /\ \E word \in Words : remote = << Message(1, word, "C1") >>
    /\ users = [exists |-> TRUE, list |-> RemoteUsers]
    /\ db = [exists |-> TRUE, rows |-> Indexed.rows, seq |-> Indexed.seq]
    /\ fuzzy = [exists |-> TRUE, docs |-> { IndexedMessage(r) : r \in Indexed.rows }]
    /\ stats = << FirstStats >>
    /\ interrupts = 0
    /\ failedSyncs = 0
    /\ pc = "idle"
    /\ run = Idle
    /\ last = NoRun

\* a one-word query, with no other option than the limit
TypoOptions ==
    [query : Words, from : {Undefined}, after : {NoDate}, limit : Limits, context : {0}]

TypoNext ==
    \E options \in TypoOptions : search(options)

TypoSpec == TypoInit /\ [][TypoNext]_vars

\* ============================================================ two workspaces
\* buildIndex and updateIndex as whole calls, for a configuration that holds up
\* to two workspaces.  The artifacts are the same four files whichever
\* workspace is the default one.
MaxPosts == 3

OtherWorkspace == [id |-> "T2", name |-> "other", token |-> "xoxp-2"]

Workspaces == {Workspace, OtherWorkspace}

getDefaultWorkspace == config[1]

\* What the Slack API answers to a token.
testAuth(token) ==
    IF token = Workspace.token THEN AuthInfo
    ELSE [userId |-> "U8", teamId |-> "T2", teamName |-> "other"]

listUsers(token) ==
    IF token = Workspace.token THEN RemoteUsers
    ELSE { [id |-> "U9", name |-> "carol", realName |-> "Carol C", displayName |-> ""],
           [id |-> "U7", name |-> "", realName |-> "", displayName |-> ""] }

listConversations(token) ==
    IF token = Workspace.token THEN Conversations
    ELSE << [id |-> "C9", name |-> "random", isIm |-> FALSE, userId |-> ""] >>

AllConvIds == ConvIds \cup {"C9"}

\* The workspace a conversation belongs to.
TeamOf(channelId) == IF channelId \in ConvIds THEN "T1" ELSE "T2"

PostTo(channelId) ==
    /\ pc = "idle"
    /\ Len(remote) < MaxPosts
    /\ remote' = Append(remote,
                    [ts |-> NextTs,
                     user |-> IF channelId \in ConvIds THEN AuthorOf(Len(remote) + 1)
                              ELSE IF Len(remote) % 2 = 0 THEN "U7" ELSE "U9",
                     text |-> Len(remote) + 1, channel |-> channelId, parent |-> 0])
    /\ last' = NoRun
    /\ UNCHANGED <<config, users, db, fuzzy, stats, interrupts, failedSyncs, pc, run>>

RECURSIVE buildIndexFetch(_, _, _, _)
buildIndexFetch(conversations, i, userMap, allMessages) ==
    IF i > Len(conversations) THEN allMessages
    ELSE buildIndexFetch(conversations, i + 1, userMap,
             BuildConvLoop(getConversationHistory(conversations[i].id, 0), NoFailure,
                           resolveConversationName(userMap, conversations[i]), allMessages))

buildIndex ==
    /\ pc = "idle"
    /\ WallClock <= MaxClock
    /\ config # <<>>
    /\ LET workspace == getDefaultWorkspace
           authInfo == testAuth(workspace.token)
           userMap == listUsers(workspace.token)
           conversations == listConversations(workspace.token)
           allMessages == buildIndexFetch(conversations, 1, userMap, <<>>)
           table == insertBatch([rows |-> NoRows, seq |-> 0], allMessages, userMap)
           indexedMessages == { IndexedMessage(r) : r \in table.rows }
       IN /\ users' = [exists |-> TRUE, list |-> userMap]
          /\ db' = [exists |-> TRUE, rows |-> table.rows, seq |-> table.seq]
          /\ fuzzy' = [exists |-> TRUE, docs |-> addAll({}, indexedMessages)]
          /\ stats' = << [totalMessages |-> Cardinality(indexedMessages),
                          totalChats |-> Cardinality({ m.chatId : m \in indexedMessages }),
                          totalContacts |-> Cardinality({ m.sender : m \in indexedMessages }),
                          indexedAt |-> WallClock,
                          oldestMessage |-> IF allMessages = <<>> THEN Now
                                            ELSE DateOf(MinDate(allMessages)),
                          newestMessage |-> IF allMessages = <<>> \/ MaxDate(allMessages) = 0
                                            THEN Now ELSE DateOf(MaxDate(allMessages)),
                          workspaceId |-> authInfo.teamId,
                          workspaceName |-> authInfo.teamName,
                          conversationCursors |->
                              BuildCursors(allMessages, [c \in AllConvIds |-> 0])] >>
    /\ last' = [NoRun EXCEPT !.op = "build", !.result = "done"]
    /\ UNCHANGED <<config, remote, interrupts, failedSyncs, pc, run>>

RECURSIVE updateIndexFetch(_, _, _, _, _)
updateIndexFetch(conversations, i, userMap, existingStats, acc) ==
    IF i > Len(conversations) THEN acc
    ELSE updateIndexFetch(conversations, i + 1, userMap, existingStats,
             UpdateConvLoop(getConversationHistory(conversations[i].id,
                                existingStats.conversationCursors[conversations[i].id]),
                            NoFailure, resolveConversationName(userMap, conversations[i]), acc))

updateIndex ==
    /\ pc = "idle"
    /\ WallClock <= MaxClock
    /\ stats # <<>>
    /\ \E c \in AllConvIds : stats[1].conversationCursors[c] # 0
    /\ config # <<>>
    /\ LET existingStats == stats[1]
           workspace == getDefaultWorkspace
           userMap == loadUsersCache
           conversations == listConversations(workspace.token)
           fetched == updateIndexFetch(conversations, 1, userMap, existingStats,
                          [msgs |-> <<>>, cursors |-> existingStats.conversationCursors])
           table == insertBatch([rows |-> db.rows, seq |-> db.seq], fetched.msgs, userMap)
           newRows == NewRows(table.rows, fetched.msgs)
           newIndexedMessages == { IndexedMessage(r) : r \in newRows }
       IN IF fetched.msgs = <<>>
          THEN /\ stats' = << NoopStats(existingStats, fetched.cursors) >>
               /\ last' = [NoRun EXCEPT !.op = "update", !.result = "done"]
               /\ UNCHANGED <<db, fuzzy>>
          ELSE /\ db' = [exists |-> TRUE, rows |-> table.rows, seq |-> table.seq]
               /\ IF DuplicateId(fuzzy.docs, newIndexedMessages)
                  THEN /\ last' = [NoRun EXCEPT !.op = "update", !.result = "duplicate_id"]
                       /\ UNCHANGED <<fuzzy, stats>>
                  ELSE /\ fuzzy' = [exists |-> TRUE,
                                    docs |-> addAll(fuzzy.docs, newIndexedMessages)]
                       /\ stats' = << UpdatedStats(existingStats, newRows, fetched.cursors) >>
                       /\ last' = [NoRun EXCEPT !.op = "update", !.result = "done"]
    /\ UNCHANGED <<config, remote, users, interrupts, failedSyncs, pc, run>>

WorkspaceInit ==
    /\ config = <<>>
    /\ remote = <<>>
    /\ users = [exists |-> FALSE, list |-> {}]
    /\ db = [exists |-> FALSE, rows |-> NoRows, seq |-> 0]
    /\ fuzzy = [exists |-> FALSE, docs |-> {}]
    /\ stats = <<>>
    /\ interrupts = 0
    /\ failedSyncs = 0
    /\ pc = "idle"
    /\ run = Idle
    /\ last = NoRun

WorkspaceNext ==
    \/ \E workspace \in Workspaces : addWorkspace(workspace)
    \/ \E workspace \in Workspaces : removeWorkspace(workspace.id)
    \/ \E channelId \in AllConvIds : PostTo(channelId)
    \/ buildIndex
    \/ updateIndex

WorkspaceSpec == WorkspaceInit /\ [][WorkspaceNext]_vars

\* ============================================================ texts of messages
\* buildIndex and updateIndex as whole calls over a remote in which a message
\* or a reply may have an empty text or a text of blanks.
PostText(channelId, parent, text) ==
    /\ pc = "idle"
    /\ Len(remote) < MaxPosts
    /\ parent # 0 =>
         \E j \in 1..Len(remote) :
             /\ remote[j].ts = parent
             /\ remote[j].channel = channelId
             /\ remote[j].parent = 0
    /\ remote' = Append(remote,
                    [ts |-> NextTs, user |-> AuthorOf(Len(remote) + 1),
                     text |-> text, channel |-> channelId, parent |-> parent])
    /\ last' = NoRun
    /\ UNCHANGED <<config, users, db, fuzzy, stats, interrupts, failedSyncs, pc, run>>

TextInit ==
    /\ config = <<Workspace>>
    /\ remote = <<>>
    /\ users = [exists |-> FALSE, list |-> {}]
    /\ db = [exists |-> FALSE, rows |-> NoRows, seq |-> 0]
    /\ fuzzy = [exists |-> FALSE, docs |-> {}]
    /\ stats = <<>>
    /\ interrupts = 0
    /\ failedSyncs = 0
    /\ pc = "idle"
    /\ run = Idle
    /\ last = NoRun

TextNext ==
    \/ \E channelId \in ConvIds, parent \in {0} \cup { remote[j].ts : j \in 1..Len(remote) },
          text \in {EmptyText, BlankText, Len(remote) + 1} :
         PostText(channelId, parent, text)
    \/ buildIndex
    \/ updateIndex

TextSpec == TextInit /\ [][TextNext]_vars

\* ============================================================ the MCP server
\* The server is one long-running process: `run` holds its module-level
\* cachedDb and cachedMiniSearch (<<>> for null), `last` the answer of its
\* latest tool call.  Syncs are run by other processes (ensureIndex starts
\* none) and here always recreate index.db, so that an open handle keeps
\* showing the rows the file held when it was opened.
NoCaches == [op |-> "mcp", cachedDb |-> <<>>, cachedMiniSearch |-> <<>>]

getDb(caches) ==
    IF caches.cachedDb # <<>> THEN [thrown |-> FALSE, caches |-> caches]
    ELSE IF ~db.exists THEN [thrown |-> TRUE, caches |-> caches]
    ELSE [thrown |-> FALSE, caches |-> [caches EXCEPT !.cachedDb = << db.rows >>]]

getMiniSearch(caches) ==
    IF caches.cachedMiniSearch # <<>> THEN [thrown |-> FALSE, caches |-> caches]
    ELSE IF ~fuzzy.exists THEN [thrown |-> TRUE, caches |-> caches]
    ELSE [thrown |-> FALSE, caches |-> [caches EXCEPT !.cachedMiniSearch = << fuzzy.docs >>]]

clearCaches(caches) == NoCaches

closeConnections(caches) == clearCaches(caches)

ToolAnswer(tool, caches) ==
    [op |-> tool, result |-> "ok", rows |-> caches.cachedDb, docs |-> caches.cachedMiniSearch]

ToolError(tool, message) ==
    [op |-> tool, result |-> "error", error |-> message, rows |-> <<>>, docs |-> <<>>]

\* case 'search_messages': search(searchOptions), then closeConnections();
\* what search throws is caught by the handler's catch, which returns.
search_messages(textQuery) ==
    /\ pc = "idle"
    /\ LET opened == getDb(run)
           loaded == getMiniSearch(opened.caches)
       IN IF opened.thrown
          THEN /\ run' = opened.caches
               /\ last' = ToolError("search_messages", "Index not found")
          ELSE IF textQuery /\ loaded.thrown
          THEN /\ run' = loaded.caches
               /\ last' = ToolError("search_messages", "Fuzzy index not found")
          ELSE /\ run' = closeConnections(run)
               /\ last' = ToolAnswer("search_messages",
                              IF textQuery THEN loaded.caches ELSE opened.caches)
    /\ UNCHANGED <<config, remote, users, db, fuzzy, stats, interrupts, failedSyncs, pc>>

\* case 'recent_messages': getRecentMessages(limit), then closeConnections()
recent_messages ==
    /\ pc = "idle"
    /\ LET opened == getDb(run)
       IN IF opened.thrown
          THEN /\ run' = opened.caches
               /\ last' = ToolError("recent_messages", "Index not found")
          ELSE /\ run' = closeConnections(run)
               /\ last' = ToolAnswer("recent_messages", opened.caches)
    /\ UNCHANGED <<config, remote, users, db, fuzzy, stats, interrupts, failedSyncs, pc>>

\* a buildIndex of another process that is ended after it has inserted the
\* rows into the new index.db and before it writes fuzzy.json
buildIndexEnded ==
    /\ pc = "idle"
    /\ config # <<>>
    /\ LET workspace == getDefaultWorkspace
           userMap == listUsers(workspace.token)
           conversations == listConversations(workspace.token)
           allMessages == buildIndexFetch(conversations, 1, userMap, <<>>)
           table == insertBatch([rows |-> NoRows, seq |-> 0], allMessages, userMap)
       IN /\ users' = [exists |-> TRUE, list |-> userMap]
          /\ db' = [exists |-> TRUE, rows |-> table.rows, seq |-> table.seq]
    /\ last' = [NoRun EXCEPT !.op = "build", !.result = "interrupted"]
    /\ UNCHANGED <<config, remote, fuzzy, stats, interrupts, failedSyncs, pc, run>>

McpInit ==
    /\ config = <<Workspace>>
    /\ remote = <<>>
    /\ users = [exists |-> FALSE, list |-> {}]
    /\ db = [exists |-> FALSE, rows |-> NoRows, seq |-> 0]
    /\ fuzzy = [exists |-> FALSE, docs |-> {}]
    /\ stats = <<>>
    /\ interrupts = 0
    /\ failedSyncs = 0
    /\ pc = "idle"
    /\ run = NoCaches
    /\ last = NoRun

McpNext ==
    \/ \E textQuery \in BOOLEAN : search_messages(textQuery)
    \/ recent_messages
    \/ \E channelId \in ConvIds : PostTo(channelId)
    \/ buildIndex
    \/ buildIndexEnded

McpSpec == McpInit /\ [][McpNext]_vars

\* ====================================================== a reader beside a sync
\* A search of another process (a CLI call, with empty caches) that is run
\* at any point of a sync: it opens index.db and, for a text query, loads
\* fuzzy.json as they are on disk at that moment.
Observed(textQuery) ==
    IF ~db.exists
    THEN [op |-> "search", result |-> "error", error |-> "Index not found",
          rows |-> {}, docs |-> {}]
    ELSE IF textQuery /\ ~fuzzy.exists
    THEN [op |-> "search", result |-> "error", error |-> "Fuzzy index not found",
          rows |-> {}, docs |-> {}]
    ELSE [op |-> "search", result |-> "ok", error |-> "",
          rows |-> db.rows, docs |-> IF textQuery THEN fuzzy.docs ELSE {}]

searchBeside(textQuery) ==
    /\ last' = Observed(textQuery)
    /\ UNCHANGED <<config, remote, users, db, fuzzy, stats, interrupts, failedSyncs, pc, run>>

ReaderNext ==
    \/ removeWorkspace(Workspace.id)
    \/ \E c \in ConvIds, p \in {0} \cup { remote[j].ts : j \in 1..Len(remote) } : Post(c, p)
    \/ Sync
    \/ \E textQuery \in BOOLEAN : searchBeside(textQuery)

ReaderSpec == Init /\ [][ReaderNext]_vars

\* ====================================================== two syncs at a time
\* Two invocations of updateIndex that overlap, each a process of its own.
\* `run` holds the local variables of both; `pc` stays "idle" since the
\* sync machine above is not in flight.  An invocation reads stats.json and
\* fetches, then opens index.db, loads fuzzy.json and inserts its batch, then
\* adds its documents to what it loaded and writes fuzzy.json and stats.json.
Writers == {1, 2}

NoWriter == [at |-> "idle", existingStats |-> <<>>, msgs |-> <<>>, cursors |-> <<>>,
             docs |-> {}, newRows |-> {}]

UpdateRead(w) ==
    /\ pc = "idle"
    /\ run[w].at = "idle"
    /\ WallClock <= MaxClock
    /\ stats # <<>>
    /\ \E c \in AllConvIds : stats[1].conversationCursors[c] # 0
    /\ config # <<>>
    /\ LET existingStats == stats[1]
           conversations == listConversations(getDefaultWorkspace.token)
           fetched == updateIndexFetch(conversations, 1, loadUsersCache, existingStats,
                          [msgs |-> <<>>, cursors |-> existingStats.conversationCursors])
       IN run' = [run EXCEPT ![w] =
                    [at |-> "fetched", existingStats |-> << existingStats >>,
                     msgs |-> fetched.msgs, cursors |-> << fetched.cursors >>,
                     docs |-> {}, newRows |-> {}]]
    /\ UNCHANGED <<config, remote, users, db, fuzzy, stats, interrupts, failedSyncs, pc, last>>

UpdateCommit(w) ==
    /\ pc = "idle"
    /\ run[w].at = "fetched"
    /\ IF run[w].msgs = <<>>
       THEN /\ stats' = << NoopStats(run[w].existingStats[1], run[w].cursors[1]) >>
            /\ last' = [op |-> "update", result |-> "done", writer |-> w]
            /\ run' = [run EXCEPT ![w] = NoWriter]
            /\ UNCHANGED db
       ELSE /\ db.exists /\ fuzzy.exists
            /\ LET table == insertBatch([rows |-> db.rows, seq |-> db.seq], run[w].msgs,
                                        loadUsersCache)
               IN /\ db' = [exists |-> TRUE, rows |-> table.rows, seq |-> table.seq]
                  /\ run' = [run EXCEPT ![w].at = "inserted",
                                        ![w].docs = fuzzy.docs,
                                        ![w].newRows = NewRows(table.rows, run[w].msgs)]
            /\ UNCHANGED <<stats, last>>
    /\ UNCHANGED <<config, remote, users, fuzzy, interrupts, failedSyncs, pc>>

UpdateSave(w) ==
    /\ pc = "idle"
    /\ run[w].at = "inserted"
    /\ LET newIndexedMessages == { IndexedMessage(r) : r \in run[w].newRows }
       IN IF DuplicateId(run[w].docs, newIndexedMessages)
          THEN /\ last' = [op |-> "update", result |-> "duplicate_id", writer |-> w]
               /\ UNCHANGED <<fuzzy, stats>>
          ELSE /\ fuzzy' = [exists |-> TRUE, docs |-> addAll(run[w].docs, newIndexedMessages)]
               /\ stats' = << UpdatedStats(run[w].existingStats[1], run[w].newRows,
                                           run[w].cursors[1]) >>
               /\ last' = [op |-> "update", result |-> "done", writer |-> w]
    /\ run' = [run EXCEPT ![w] = NoWriter]
    /\ UNCHANGED <<config, remote, users, db, interrupts, failedSyncs, pc>>

\* the full sync that made the index the two invocations update
FirstBuild ==
    /\ stats = <<>>
    /\ remote # <<>>
    /\ buildIndex

WritersInit ==
    /\ config = <<Workspace>>
    /\ remote = <<>>
    /\ users = [exists |-> FALSE, list |-> {}]
    /\ db = [exists |-> FALSE, rows |-> NoRows, seq |-> 0]
    /\ fuzzy = [exists |-> FALSE, docs |-> {}]
    /\ stats = <<>>
    /\ interrupts = 0
    /\ failedSyncs = 0
    /\ pc = "idle"
    /\ run = [w \in Writers |-> NoWriter]
    /\ last = NoRun

WritersNext ==
    \/ \E channelId \in ConvIds : PostTo(channelId)
    \/ FirstBuild
    \/ \E w \in Writers : UpdateRead(w)
    \/ \E w \in Writers : UpdateCommit(w)
    \/ \E w \in Writers : UpdateSave(w)

WritersSpec == WritersInit /\ [][WritersNext]_vars

\* ================================================================ config.ts
\* addWorkspace and removeWorkspace as calls with their return value, over
\* entries of three workspace ids, each with an older and a newer token.
WorkspaceIds == {"T1", "T2", "T3"}

WorkspaceConfigs ==
    [id : WorkspaceIds, name : {"team", "renamed"}, token : {"xoxp-1", "xoxp-2"}]

findIndex(workspaces, workspaceId) ==
    IF \E k \in 1..Len(workspaces) : workspaces[k].id = workspaceId
    THEN CHOOSE k \in 1..Len(workspaces) :
             /\ workspaces[k].id = workspaceId
             /\ \A j \in 1..(k - 1) : workspaces[j].id # workspaceId
    ELSE 0

\* A variant of addWorkspaceTo that always pushes the entry.
addWorkspacePushes(workspaces, workspace) == Append(workspaces, workspace)

addWorkspaceTo(workspaces, workspace) ==
    LET existingIndex == findIndex(workspaces, workspace.id)
    IN IF existingIndex > 0
       THEN [workspaces EXCEPT ![existingIndex] = workspace]
       ELSE Append(workspaces, workspace)

removeWorkspaceFrom(workspaces, workspaceId) ==
    LET filtered == SelectSeq(workspaces, LAMBDA w : w.id # workspaceId)
    IN [workspaces |-> IF Len(filtered) < Len(workspaces) THEN filtered ELSE workspaces,
        returned |-> Len(filtered) < Len(workspaces)]

AddWorkspaceCall(workspace) ==
    /\ config' = addWorkspaceTo(config, workspace)
    /\ last' = [op |-> "addWorkspace", id |-> workspace.id, workspace |-> <<workspace>>,
                returned |-> TRUE]
    /\ UNCHANGED <<remote, users, db, fuzzy, stats, interrupts, failedSyncs, pc, run>>

RemoveWorkspaceCall(workspaceId) ==
    /\ config' = removeWorkspaceFrom(config, workspaceId).workspaces
    /\ last' = [op |-> "removeWorkspace", id |-> workspaceId, workspace |-> <<>>,
                returned |-> removeWorkspaceFrom(config, workspaceId).returned]
    /\ UNCHANGED <<remote, users, db, fuzzy, stats, interrupts, failedSyncs, pc, run>>

ConfigInit ==
    /\ config = <<>>
    /\ remote = <<>>
    /\ users = [exists |-> FALSE, list |-> {}]
    /\ db = [exists |-> FALSE, rows |-> NoRows, seq |-> 0]
    /\ fuzzy = [exists |-> FALSE, docs |-> {}]
    /\ stats = <<>>
    /\ interrupts = 0
    /\ failedSyncs = 0
    /\ pc = "idle"
    /\ run = Idle
    /\ last = [op |-> "none", id |-> "", workspace |-> <<>>, returned |-> FALSE]

ConfigNext ==
    \/ \E workspace \in WorkspaceConfigs : AddWorkspaceCall(workspace)
    \/ \E workspaceId \in WorkspaceIds : RemoveWorkspaceCall(workspaceId)

ConfigSpec == ConfigInit /\ [][ConfigNext]_vars

\* ================================================================== claims
InStore(m) == \E r \in db.rows : r.ts = m.ts
InFuzzy(m) == \E d \in fuzzy.docs : d.text = m.text
RemoteMessages == Range(remote)
Cursor(c) == IF stats = <<>> THEN 0 ELSE stats[1].conversationCursors[c]

\* C1: an insert step (buildIndex or updateIndex) keeps every record that is
\* already in the messages table as it is (same id, same fields), and the table
\* holds at most one record per ts afterwards.
C1_FirstWriteWins ==
    [][ (pc \in {"b_insert", "u_insert"} /\ pc' \in {"b_fuzzy", "u_fuzzy"}) =>
          /\ \A r \in db.rows : r \in db'.rows
          /\ \A r1, r2 \in db'.rows : r1.ts = r2.ts => r1 = r2
          /\ (\A m \in Range(run.msgs) : \E r \in db.rows : r.ts = m.ts) => db' = db ]_vars

\* a re-fetched message, stored before it had replies, has been written again
\* with a thread_ts and the stored record still has none
C1_Witness ==
    /\ pc = "u_fuzzy"
    /\ \E m \in Range(run.msgs), r \in db.rows, d \in fuzzy.docs :
         /\ r.ts = m.ts
         /\ d.id = r.id /\ d.text = r.text
         /\ m.threadTs # 0
         /\ r.thread_ts = 0

\* C2: at rest, every persisted cursor covers only committed data: a message
\* the pipeline was handed (it is in the table, in the snapshot or both) with
\* ts <= the cursor of its conversation is in the table and in the snapshot.
C2_CursorCoversCommitted ==
    pc = "idle" =>
        \A m \in RemoteMessages :
            (/\ InStore(m) \/ InFuzzy(m)
             /\ Cursor(m.channel) # 0
             /\ m.ts <= Cursor(m.channel)) => (InStore(m) /\ InFuzzy(m))

\* C3: on a remote without threads and with no fetch error, the updateIndex
\* that follows an interrupted updateIndex ends well, and then every remote
\* message is once in the table and once in the snapshot.
C3_ResumeAfterInterrupt ==
    [][ (/\ last.op = "update" /\ last.result = "interrupted"
         /\ failedSyncs' = 0
         /\ \A m \in RemoteMessages : m.parent = 0
         /\ run.op = "update"
         /\ pc' = "idle"
         /\ last'.result # "interrupted") =>
          /\ last'.result = "done"
          /\ \A m \in RemoteMessages :
               /\ Cardinality({ r \in db'.rows : r.ts = m.ts }) = 1
               /\ Cardinality({ d \in fuzzy'.docs : d.text = m.text }) = 1 ]_vars

\* C4: when no sync was interrupted and no fetch failed, every message the
\* remote holds is in the table after an updateIndex that ended well.
C4_UpdateLosesNothing ==
    (/\ pc = "idle" /\ last.op = "update" /\ last.result = "done" /\ ~last.failed
     /\ interrupts = 0 /\ failedSyncs = 0) =>
        \A m \in RemoteMessages : InStore(m)

\* C5: an updateIndex that persists the stats record never lowers or drops the
\* cursor of a conversation that had one.
C5_CursorMonotonic ==
    [][ (run.op = "update" /\ stats' # stats) =>
          \A c \in ConvIds :
              stats[1].conversationCursors[c] # 0 =>
                  stats'[1].conversationCursors[c] >= stats[1].conversationCursors[c] ]_vars

\* the second of two successive incremental syncs is about to persist a cursor
\* larger than the stored one
C5_Witness ==
    /\ pc = "u_stats"
    /\ last.op = "update" /\ last.result = "done"
    /\ \E c \in ConvIds : Cursor(c) # 0 /\ run.cursors[c] > Cursor(c)
    /\ \E c \in ConvIds : Cursor(c) # 0 /\ run.cursors[c] = Cursor(c)

\* C6: a buildIndex that follows a buildIndex, both without a fetch error and
\* with the remote unchanged in between, ends with as many records in the table
\* and as many documents in the snapshot as the first.
C6_BuildTwiceSameCounts ==
    [][ (/\ pc = "b_stats" /\ pc' = "idle"
         /\ last.op = "build" /\ last.result = "done" /\ ~last.failed
         /\ last'.result = "done" /\ ~last'.failed) =>
          /\ last'.nRows = last.nRows
          /\ last'.nDocs = last.nDocs
          /\ Cardinality(db'.rows) = last.nRows
          /\ Cardinality(fuzzy'.docs) = last.nDocs ]_vars

\* the second buildIndex has rebuilt both indexes of a corpus with a thread
C6_Witness ==
    /\ pc = "b_stats"
    /\ last.op = "build" /\ last.result = "done" /\ ~last.failed
    /\ ~run.failed
    /\ last.nRows = MaxMsgs
    /\ \E r \in db.rows : r.thread_ts # 0 /\ r.thread_ts # r.ts

\* C7: an updateIndex that finds no new message returns the stats, leaves
\* totalMessages, the table and the snapshot as they are, and persists a later
\* indexedAt.
C7_NoopUpdate ==
    [][ (pc = "u_noop" /\ pc' = "idle" /\ last'.result # "interrupted") =>
          /\ last'.result = "done"
          /\ stats'[1].totalMessages = stats[1].totalMessages
          /\ db' = db
          /\ fuzzy' = fuzzy
          /\ stats'[1].indexedAt > stats[1].indexedAt ]_vars

\* an updateIndex against a remote with nothing new has returned
C7_Witness ==
    /\ pc = "idle"
    /\ last.op = "update" /\ last.result = "done" /\ ~last.failed /\ last.total = 0
    /\ db.rows # {}
    /\ \A m \in RemoteMessages : InStore(m)

\* C8: after a buildIndex that ended well with no fetch error, the table holds
\* one record for each remote message, history message or thread reply, and no
\* other record.
C8_BuildStoresExactlyRemote ==
    (pc = "idle" /\ last.op = "build" /\ last.result = "done" /\ ~last.failed) =>
        /\ { r.ts : r \in db.rows } = { m.ts : m \in RemoteMessages }
        /\ Cardinality(db.rows) = Len(remote)
        /\ \A r \in db.rows : \E m \in RemoteMessages :
             r.ts = m.ts /\ r.text = m.text /\ r.chat_id = m.channel

\* a full sync has stored the messages of both conversations and a thread reply
C8_Witness ==
    /\ pc = "idle" /\ last.op = "build" /\ last.result = "done" /\ ~last.failed
    /\ \E r \in db.rows : r.thread_ts # 0 /\ r.thread_ts # r.ts
    /\ \A c \in ConvIds : \E r \in db.rows : r.chat_id = c

C10_Original ==
    [][ (/\ pc = "idle" /\ pc' = "idle"
         /\ config = <<>>
         /\ last'.op \in {"build", "update"}
         /\ last' # last) => (last'.result = "no_workspace" /\ UNCHANGED disk) ]_vars

\* C10 as amended: a sync that ends before fetching leaves the four artifacts
\* alone; with no workspace configured buildIndex fails, and updateIndex fails
\* when the stats record holds a cursor and returns null when it does not; an
\* authentication failure is an error of buildIndex, and of updateIndex only
\* when the stats record holds a cursor.
C10_AbortBeforeAnyWrite ==
    [][ (/\ pc = "idle" /\ pc' = "idle"
         /\ last'.op \in {"build", "update"}
         /\ last' # last) =>
          /\ UNCHANGED disk
          /\ last'.result \in {"no_workspace", "auth_failed", "null"}
          /\ config = <<>> =>
               last'.result = IF last'.op = "update" /\ ~HasCursors
                              THEN "null" ELSE "no_workspace"
          /\ last'.result = "auth_failed" =>
               (config # <<>> /\ (last'.op = "update" => HasCursors))
          /\ last'.result = "null" => (last'.op = "update" /\ ~HasCursors) ]_vars

\* updateIndex has failed for want of a workspace, over an existing index
C10_Witness ==
    /\ config = <<>>
    /\ last.op = "update" /\ last.result = "no_workspace"
    /\ db.exists /\ fuzzy.exists /\ stats # <<>> /\ users.exists
    /\ db.rows # {}

\* C11: when stats.json is absent or holds no cursor, no updateIndex gets as
\* far as the remote, and an updateIndex that is called returns null and
\* leaves the four artifacts as they are.
C11_NoPriorIndex ==
    [][ (/\ pc = "idle"
         /\ (stats = <<>> \/ \A c \in ConvIds : stats[1].conversationCursors[c] = 0)) =>
          /\ run'.op # "update"
          /\ (last'.op = "update" /\ last' # last) =>
               (last'.result = "null" /\ pc' = "idle" /\ UNCHANGED disk
                /\ UNCHANGED <<remote, failedSyncs>>) ]_vars

\* updateIndex has returned null over a stats record whose cursor registry is
\* empty (a full sync of an empty workspace wrote it), with a workspace set
C11_Witness ==
    /\ last.op = "update" /\ last.result = "null"
    /\ stats # <<>> /\ db.exists /\ fuzzy.exists
    /\ config # <<>>

\* C19: at rest after a sync that ended well, totalMessages of stats.json is
\* the number of rows of the messages table.
C19_TotalMessagesIsRowCount ==
    (pc = "idle" /\ last.result = "done") =>
        stats[1].totalMessages = Cardinality(db.rows)

\* C20: after a full sync without fetch error (the table then holds every
\* remote message) and with no sync interrupted, the table still holds every
\* one of these messages, with the same fields, when the next sync has ended
\* well.
C20_StoredMessagesRetained ==
    [][ (/\ last.op = "build" /\ last.result = "done" /\ ~last.failed
         /\ interrupts' = 0
         /\ pc # "idle" /\ pc' = "idle"
         /\ last'.result = "done") =>
          \A m \in RemoteMessages :
              \E r \in db'.rows :
                  r.ts = m.ts /\ r.text = m.text /\ r.chat_id = m.channel ]_vars

\* ------------------------------------------------------------ search claims
SearchReturned == last.op = "search" /\ last.result = "ok"

Hits == { last.results[k].result : k \in 1..Len(last.results) }

StoredMessages == { rowToMessage(r) : r \in db.rows }

Ascending(messages) ==
    \A i, j \in 1..Len(messages) : i < j =>
        (messages[i].date <= messages[j].date /\ messages[i] # messages[j])

C13_NoSelfAuthoredWithFrom ==
    (SearchReturned /\ Truthy(last.options.from)) =>
        \A h \in Hits : ~h.message.isFromMe

\* a text search with from, over an index that holds a self-authored message
\* matching the text whose sender contains from
C13_Witness ==
    /\ SearchReturned
    /\ Truthy(last.options.from)
    /\ hasTextQuery(last.options.query)
    /\ \E d \in fuzzy.docs :
         /\ d.isFromMe
         /\ SenderIncludes(d.sender, toLowerCase(last.options.from))
         /\ matchedTerms(tokenize(last.options.query), d) # {}

\* C14: a search without from whose query is undefined, empty, blank or "*"
\* returns the empty list and throws nothing, whatever index.db and fuzzy.json
\* hold.  Violated: without index.db the call throws before it looks at the
\* query.
C14_EmptyQueryReturnsEmpty ==
    (/\ last.op = "search"
     /\ ~Truthy(last.options.from)
     /\ ~hasTextQuery(last.options.query)) =>
        (last.result = "ok" /\ last.results = <<>>)

\* C15: a text search with from or after returns min(k, limit) results, k
\* being the number of indexed messages that match the text and pass the
\* sender, self-authorship and date tests.  Violated: the date test runs on
\* the first limit * 20 matches only.
C15_FilteredOutDoNotCount ==
    (/\ SearchReturned
     /\ hasTextQuery(last.options.query)
     /\ (Truthy(last.options.from) \/ last.options.after # NoDate)) =>
        LET from == last.options.from
            after == last.options.after
            passing == { d \in fuzzy.docs :
                           /\ matchedTerms(tokenize(last.options.query), d) # {}
                           /\ Truthy(from) =>
                                (~d.isFromMe /\ SenderIncludes(d.sender, toLowerCase(from)))
                           /\ after # NoDate => d.date >= afterFloor(after) }
        IN Len(last.results) = Min2(Cardinality(passing), last.options.limit)

\* C16: a text search returns at most limit results; with from, each result
\* is not self-authored and its sender contains from whatever the case; with
\* after, each result is dated at or after the second after falls in.
C16_TextResultsPassFilters ==
    (SearchReturned /\ hasTextQuery(last.options.query)) =>
        /\ Len(last.results) <= last.options.limit
        /\ \A h \in Hits :
             /\ Truthy(last.options.from) =>
                  /\ ~h.message.isFromMe
                  /\ SenderIncludes(h.message.sender, toLowerCase(last.options.from))
             /\ last.options.after # NoDate =>
                  h.message.date * MsPerSec + MsPerSec > CHOOSE ms \in last.options.after : TRUE

\* a text search with from and after that returns a message, while the index
\* holds a match of the text that is too old and more matches than limit
C16_Witness ==
    /\ SearchReturned
    /\ hasTextQuery(last.options.query)
    /\ Truthy(last.options.from)
    /\ last.options.after # NoDate
    /\ last.results # <<>>
    /\ \E d \in fuzzy.docs :
         /\ matchedTerms(tokenize(last.options.query), d) # {}
         /\ d.date * MsPerSec + MsPerSec <= CHOOSE ms \in last.options.after : TRUE
    /\ Cardinality({ d \in fuzzy.docs : matchedTerms(tokenize(last.options.query), d) # {} })
         > last.options.limit

\* C17: a search with from and no usable text query returns at most limit
\* messages, none self-authored, each with a sender that contains from
\* whatever the case and a date at or after the second after falls in, newest
\* first, each scored 1.0.  Violated: from is handed to LIKE as a pattern, so
\* its _ and % stand for other characters.
C17_SenderOnlyFromStore ==
    (/\ SearchReturned
     /\ Truthy(last.options.from)
     /\ ~hasTextQuery(last.options.query)) =>
        /\ Len(last.results) <= last.options.limit
        /\ \A h \in Hits :
             /\ ~h.message.isFromMe
             /\ SenderIncludes(h.message.sender, toLowerCase(last.options.from))
             /\ h.message \in StoredMessages
             /\ h.score = FlatScore
             /\ last.options.after # NoDate =>
                  h.message.date * MsPerSec + MsPerSec > CHOOSE ms \in last.options.after : TRUE
        /\ \A i, j \in 1..Len(last.results) : i < j =>
             last.results[i].result.message.date >= last.results[j].result.message.date

ReadOps == {"search", "getRecentMessages", "getContacts", "getConversations", "getThread"}

C22_ReadBeforeBuildFails ==
    (last.op \in ReadOps /\ stats = <<>>) =>
        /\ last.result = "error"
        /\ last.error \in {"Index not found", "Fuzzy index not found"}

\* ---------------------------------------------------------- more sync claims
NoFailures == [c \in ConvIds |-> NoFailure]

\* what the running sync would have fetched had no fetch failed
WholeFetch ==
    IF run.op = "build" THEN BuildFetchAll(1, NoFailures, FALSE, RemoteUsers, <<>>)
    ELSE UpdateFetchAll(1, NoFailures, FALSE, loadUsersCache,
                        [msgs |-> <<>>, cursors |-> InitialCursors(stats[1])]).msgs

\* the fetch of the conversation broke off: the sync holds less of it than
\* a whole fetch gives
FetchFailed(c) ==
    \E m \in Range(WholeFetch) :
        m.channelId = c /\ \A x \in Range(run.msgs) : x.ts # m.ts

\* C24: a sync writes no message of a conversation whose fetch failed in it,
\* and leaves the cursor of that conversation as it was.  Violated: what was
\* fetched before the error is written, and the cursor moves with it.
C24_FailedConversationSkipped ==
    [][ \A c \in ConvIds :
          (run.op \in {"build", "update"} /\ FetchFailed(c)) =>
              /\ (pc \in {"b_insert", "u_insert"} /\ pc' \in {"b_fuzzy", "u_fuzzy"}) =>
                   \A r \in db'.rows \ db.rows : r.chat_id # c
              /\ (pc \in {"b_stats", "u_stats", "u_noop"} /\ last'.result = "done") =>
                   stats'[1].conversationCursors[c] =
                       (IF stats = <<>> THEN 0 ELSE stats[1].conversationCursors[c]) ]_vars

\* C25: no sync that ends well, buildIndex or updateIndex, lowers or drops
\* the cursor of a conversation that had one.  Violated: buildIndex makes the
\* cursors anew from what it fetched, so a conversation that failed to fetch
\* loses its cursor.
C25_CursorMonotonicAcrossSyncs ==
    [][ (run.op \in {"build", "update"} /\ stats # <<>> /\ stats' # stats) =>
          \A c \in ConvIds :
              stats'[1].conversationCursors[c] >= stats[1].conversationCursors[c] ]_vars

\* the largest ts among the messages of a conversation, 0 for none
MaxTs(messages, c) ==
    IF \A m \in messages : m.channelId # c THEN 0
    ELSE CHOOSE t \in { m.ts : m \in { x \in messages : x.channelId = c } } :
             \A m \in messages : m.channelId = c => t >= m.ts

\* C26: the stats record a buildIndex persists gives every conversation the
\* largest ts among the messages the sync fetched for it, replies included,
\* and no cursor to a conversation for which it fetched none.
C26_BuildCursorIsMaxObserved ==
    [][ (pc = "b_stats" /\ last'.result = "done") =>
          \A c \in ConvIds :
              stats'[1].conversationCursors[c] = MaxTs(Range(run.msgs), c) ]_vars

\* a full sync has ended with the cursor of one conversation on a thread
\* reply that is not the first message fetched for it, and no cursor for the
\* other conversation
C26_Witness ==
    /\ pc = "idle" /\ last.op = "build" /\ last.result = "done"
    /\ \E c \in ConvIds :
         \E m \in RemoteMessages : m.channel = c /\ m.parent # 0 /\ m.ts = Cursor(c)
    /\ \E c \in ConvIds : Cursor(c) = 0

\* C27: the stats record an updateIndex persists gives every conversation the
\* largest of its former cursor and the ts of the messages the sync fetched
\* for it, replies included.  Violated, also when no fetch fails: the cursor
\* follows the history messages only, not the replies fetched with them.
C27_UpdateCursorIsMaxObserved ==
    [][ (pc \in {"u_stats", "u_noop"} /\ last'.result = "done" /\ ~run.failed) =>
          \A c \in ConvIds :
              LET former == stats[1].conversationCursors[c]
                  observed == MaxTs(Range(run.msgs), c)
              IN stats'[1].conversationCursors[c] =
                     (IF observed > former THEN observed ELSE former) ]_vars

\* C28: after a sync that ended well, totalChats and totalContacts of
\* stats.json are the numbers of distinct chat_id and of distinct sender in
\* the table.  Violated, with no sync interrupted and no fetch failed:
\* updateIndex copies both numbers from the former stats record.
C28_ChatAndContactTotals ==
    (pc = "idle" /\ last.result = "done" /\ ~last.failed /\ interrupts = 0) =>
        /\ stats[1].totalChats = Cardinality({ r.chat_id : r \in db.rows })
        /\ stats[1].totalContacts = Cardinality({ r.sender : r \in db.rows })

\* C29: after a sync that ended well over a table that is not empty,
\* oldestMessage and newestMessage of stats.json are the smallest and the
\* largest date in the table.  Violated: updateIndex copies oldestMessage, so
\* a conversation it fetches from the beginning can bring older rows.
C29_OldestAndNewest ==
    (pc = "idle" /\ last.result = "done" /\ interrupts = 0 /\ db.rows # {}) =>
        /\ stats[1].oldestMessage =
               DateOf(CHOOSE d \in { r.date : r \in db.rows } : \A r \in db.rows : d <= r.date)
        /\ stats[1].newestMessage =
               DateOf(CHOOSE d \in { r.date : r \in db.rows } : \A r \in db.rows : d >= r.date)

\* C30: the phases a sync reports never go backwards in the order auth, users,
\* conversations, messages, threads, indexing-fts, indexing-fuzzy, done; `done`
\* is reported at most once, as the last event, by the step that has written
\* stats.json and ends the sync well, and every sync that ends well reports it.
C30_ProgressOrderedDoneLast ==
    [][ \A now \in { onProgress(Step, IF pc = "idle" THEN run'.msgs ELSE run.msgs) } :
        \A all \in { Reported \o now } :
           /\ \A i \in 1..(Len(all) - 1) : PhaseRank(all[i]) <= PhaseRank(all[i + 1])
           /\ \A i \in 1..Len(all) :
                  all[i] = "done" =>
                      /\ i = Len(all)
                      /\ pc' = "idle"
                      /\ last'.result = "done"
                      /\ stats' # <<>>
                      /\ stats'[1].indexedAt = WallClock
           /\ (pc # "idle" /\ pc' = "idle" /\ last'.result = "done") =>
                  (now # <<>> /\ now[Len(now)] = "done")
      ]_vars

C30_Witness ==
    /\ last.op = "update"
    /\ last.result = "done"
    /\ last.total > 0
    /\ failedSyncs > 0

\* ----------------------------------------------------------- workspace claims
\* C23: index.db, fuzzy.json and stats.json never combine two workspaces: every
\* stored row, every fuzzy document and every cursor belongs to a conversation
\* of the workspace that stats.json names.
C23_ArtifactsOfOneWorkspace ==
    stats # <<>> =>
        /\ \A r \in db.rows : TeamOf(r.chat_id) = stats[1].workspaceId
        /\ \A d \in fuzzy.docs : TeamOf(d.chatId) = stats[1].workspaceId
        /\ \A c \in AllConvIds :
               stats[1].conversationCursors[c] # 0 => TeamOf(c) = stats[1].workspaceId

\* -------------------------------------------------------------- config claims
Without(workspaces, workspaceId) == SelectSeq(workspaces, LAMBDA w : w.id # workspaceId)

HasWorkspace(workspaces, workspaceId) ==
    \E k \in 1..Len(workspaces) : workspaces[k].id = workspaceId

\* C38: the configuration holds at most one entry per workspace id; a call of
\* addWorkspace with an id that is present puts the new entry at the position
\* of the old one and leaves the others, and otherwise appends it; a call of
\* removeWorkspace returns true and removes the entry exactly when the id was
\* present, and otherwise returns false and leaves the configuration as it was.
C38_OneEntryPerWorkspace ==
    [][ /\ \A j, k \in 1..Len(config') : config'[j].id = config'[k].id => j = k
        /\ last'.op = "addWorkspace" =>
              IF HasWorkspace(config, last'.id)
              THEN /\ Len(config') = Len(config)
                   /\ \A k \in 1..Len(config) :
                          config'[k] = IF config[k].id = last'.id
                                       THEN last'.workspace[1] ELSE config[k]
              ELSE config' = config \o last'.workspace
        /\ last'.op = "removeWorkspace" =>
              /\ last'.returned = HasWorkspace(config, last'.id)
              /\ config' = Without(config, last'.id)
              /\ ~last'.returned => config' = config
      ]_vars

C38_Witness ==
    /\ last.op = "addWorkspace"
    /\ Len(config) = 3
    /\ config[1] = last.workspace[1]
    /\ config[1].token = "xoxp-2"
    /\ config[2].token = "xoxp-1"

\* ---------------------------------------------------------------- text claims
\* C31: every row of the messages table has a text that is not empty after
\* trimming, whether it came from a history or from a thread.
C31_StoredTextNotEmpty ==
    \A r \in db.rows : ~NoText(r.text)

\* -------------------------------------------------------------- sender claims
AuthorOfRow(r) == remote[CHOOSE j \in 1..Len(remote) : remote[j].ts = r.ts].user

Known(userId) == \E u \in loadUsersCache : u.id = userId

UserOf(userId) == CHOOSE u \in loadUsersCache : u.id = userId

\* C32: the sender stored with a message is the author's display name if that
\* is not empty, else the real name if that is not empty, else the username if
\* that is not empty, else the user id; the user id is stored only for an
\* author who is not in the user map or whose three names are all empty.
C32_SenderPrecedence ==
    \A r \in db.rows :
        \A userId \in { AuthorOfRow(r) } :
            /\ (Known(userId) /\ UserOf(userId).displayName # "") =>
                   r.sender = UserOf(userId).displayName
            /\ (Known(userId) /\ UserOf(userId).displayName = ""
                  /\ UserOf(userId).realName # "") =>
                   r.sender = UserOf(userId).realName
            /\ (Known(userId) /\ UserOf(userId).displayName = ""
                  /\ UserOf(userId).realName = "" /\ UserOf(userId).name # "") =>
                   r.sender = UserOf(userId).name
            /\ (~Known(userId)
                  \/ (/\ UserOf(userId).displayName = ""
                      /\ UserOf(userId).realName = ""
                      /\ UserOf(userId).name = "")) =>
                   r.sender = userId
            /\ r.sender = userId =>
                   \/ ~Known(userId)
                   \/ /\ UserOf(userId).displayName = ""
                      /\ UserOf(userId).realName = ""
                      /\ UserOf(userId).name = ""

C32_Witness ==
    /\ \E r \in db.rows : r.sender = "U7" /\ AuthorOfRow(r) = "U7" /\ Known("U7")
    /\ \E r \in db.rows : r.sender = "U1" /\ AuthorOfRow(r) = "U1" /\ ~Known("U1")

\* ------------------------------------------------------- both indexes claims
SameIds ==
    /\ { d.id : d \in fuzzy.docs } = { r.id : r \in db.rows }
    /\ \A d1, d2 \in fuzzy.docs : d1.id = d2.id => d1 = d2
    /\ \A r1, r2 \in db.rows : r1.id = r2.id => r1 = r2
    /\ \A d \in fuzzy.docs : \E r \in db.rows :
           /\ r.id = d.id
           /\ d.text = r.text /\ d.sender = r.sender /\ d.chatName = r.chat_name
           /\ d.chatId = r.chat_id /\ d.date = r.date
           /\ d.isFromMe = (r.is_from_me = 1) /\ d.threadTs = r.thread_ts

\* C36: as long as every sync so far has run to its end, each buildIndex or
\* updateIndex that ends well leaves fuzzy.json with exactly the ids of the
\* messages table, each once, and every document with the fields of its row.
C36_FuzzyMatchesStore ==
    [][ (pc # "idle" /\ pc' = "idle" /\ last'.result = "done" /\ interrupts' = 0)
            => SameIds' ]_vars

C36_Witness ==
    /\ last.op = "update"
    /\ last.result = "done"
    /\ last.total > 0
    /\ interrupts = 0
    /\ Cardinality(fuzzy.docs) = MaxMsgs
    /\ SameIds

\* ------------------------------------------------------------- context claims
\* C37: a stored message of the hit's conversation dated in the same second as
\* the hit is in neither the before nor the after context of that hit, and
\* the hit itself is never in its own context.
C37_SameSecondLeftOut ==
    SearchReturned =>
        \A k \in 1..Len(last.results) :
            \A m \in Range(last.results[k].before) \cup Range(last.results[k].after) :
                /\ m.date # last.results[k].result.message.date
                /\ m.id # last.results[k].result.message.id

\* a hit with a context on one side and another stored message of its
\* conversation in its own second
C37_Witness ==
    /\ SearchReturned
    /\ \E k \in 1..Len(last.results) :
         LET hit == last.results[k].result.message
         IN /\ Len(last.results[k].after) = 1
            /\ \E m \in StoredMessages :
                   m.chatId = hit.chatId /\ m.date = hit.date /\ m.id # hit.id

\* ------------------------------------------------------------ MCP server claims
McpTools == {"search_messages", "recent_messages"}

\* C35: when a tool call of the MCP server has returned, with an answer or
\* with an error, cachedDb and cachedMiniSearch are null, and an answer is
\* read from index.db and fuzzy.json as they are on disk at the call.
C35_CachesReleased ==
    [][ (last'.op \in McpTools /\ <<run, last>>' # <<run, last>>) =>
            /\ run'.cachedDb = <<>>
            /\ run'.cachedMiniSearch = <<>>
            /\ last'.result = "ok" =>
                   /\ last'.rows = << db.rows >>
                   /\ last'.docs # <<>> => last'.docs = << fuzzy.docs >>
      ]_vars

\* ------------------------------------------------------------ reader claims
\* C33: a search that runs while a sync of another process is under way sees
\* the index as the last finished sync left it, which is what stats.json
\* still describes: no index if there is no stats.json, and otherwise a
\* messages table with totalMessages rows and, for a text query, a fuzzy
\* snapshot with exactly the documents of those rows.
C33_ReaderSeesCommitted ==
    [][ (last'.op = "search" /\ last' # last /\ pc # "idle") =>
            IF stats = <<>>
            THEN last'.result = "error"
            ELSE /\ last'.result = "ok"
                 /\ Cardinality(last'.rows) = stats[1].totalMessages
                 /\ last'.docs # {} =>
                        last'.docs = { IndexedMessage(r) : r \in last'.rows }
      ]_vars

\* ------------------------------------------------------------ writer claims
\* C34: also when two invocations of updateIndex overlap, a write of
\* fuzzy.json by updateIndex keeps every document that fuzzy.json held, so
\* that the snapshot written last holds what the other invocation committed.
C34_LastSnapshotKeepsAll ==
    [][ (last'.op = "update" /\ fuzzy' # fuzzy) => fuzzy.docs \subseteq fuzzy'.docs ]_vars

====
